---- MODULE Spec2Model ----
(***************************************************************************)
(* A model of rivals_streamlit_app.py: the match filter and the            *)
(* aggregation functions of the Marvel Rivals data explorer.               *)
(*                                                                         *)
(* A JSON object (a Python dict) is a TLA+ record whose DOMAIN is the set  *)
(* of keys that are present: a missing field is a missing key, exactly as  *)
(* in the data files.  A mapping whose order matters (the match mapping,   *)
(* every result dict) is a sequence of entries in insertion order.         *)
(***************************************************************************)
EXTENDS Integers, Sequences, FiniteSets, TLC

VARIABLES
    matches,                      \* the match mapping handed to the function under call
    player_ign,                   \* the viewed player
    only_friend_games,            \* sidebar checkbox, argument of filter_matches
    character,                    \* hero argument of the matchup functions
    target_teammates,             \* argument of the matchup functions
    filter_teammates_to_friends,  \* argument of the matchup functions
    pc,                           \* position of the run
    raised,                       \* the exception that ended the run, "none" if none
    filtered_player_matches,      \* result of filter_matches
    hero_stats,                   \* the accumulator of the hero aggregation, after its loop
    overall_pm,                   \* result of get_overall_plus_minus
    avg_pm,                       \* result of get_average_plus_minus
    matchups_avg,                 \* result of get_matchups
    matchups_total,               \* result of get_total_matchups
    total_perf_by_day,            \* first result of get_performance_by_day_of_week
    avg_perf_by_day,              \* second result of get_performance_by_day_of_week
    map_data,                     \* first result of get_map_performance_for_hero
    map_games,                    \* second result of get_map_performance_for_hero
    map_type_data,                \* first result of get_map_type_performance_for_hero
    map_type_games,               \* second result of get_map_type_performance_for_hero
    num_games,                    \* argument of get_latest_games
    latest_games,                 \* result of get_latest_games
    chart_builder,                \* the chart builder under call
    chart_data,                   \* its mapping argument
    chart_games,                  \* map_games, argument of the map chart builders
    show_average,                 \* show_average of the map chart builders, is_average of the day one
    chart,                        \* the figure returned, or None
    files,                        \* the data file of each player: missing, not JSON, or its content
    cached,                       \* st.cache_data holds the result of load_all_player_data
    all_player_data,              \* all_data of load_all_player_data: the Match Store
    available_players,            \* available_players of load_all_player_data
    relevant_chars,               \* the heroes of the per-hero sections of a run
    rendered,                     \* what a run has put on the page, in order
    steps                         \* the stages a run has been through, in order

vars == <<matches, player_ign, only_friend_games, character, target_teammates,
          filter_teammates_to_friends, pc, raised, filtered_player_matches,
          hero_stats, overall_pm, avg_pm, matchups_avg, matchups_total,
          total_perf_by_day, avg_perf_by_day, map_data, map_games, map_type_data,
          map_type_games, num_games, latest_games, chart_builder, chart_data, chart_games,
          show_average, chart, files, cached, all_player_data, available_players,
          relevant_chars, rendered, steps>>

\* The variables of the map aggregations, of get_latest_games, and both.
mapVars == <<map_data, map_games, map_type_data, map_type_games>>

latestVars == <<num_games, latest_games>>

\* The variables of the chart builders, of the loading, of a run of the page.
chartVars == <<chart_builder, chart_data, chart_games, show_average, chart>>

loadVars == <<files, cached, all_player_data, available_players>>

pageVars == <<relevant_chars, rendered, steps>>

uiVars == <<chartVars, loadVars, pageVars>>

extVars == <<mapVars, latestVars, uiVars>>

\* The arguments and results of the functions, by function.
inputVars == <<matches, player_ign>>

filterVars == <<only_friend_games, filtered_player_matches>>

heroVars == <<hero_stats, overall_pm, avg_pm>>

matchupArgs == <<character, target_teammates, filter_teammates_to_friends>>

matchupVars == <<matchups_avg, matchups_total>>

dayVars == <<total_perf_by_day, avg_perf_by_day>>

\* The arguments and results of the filter and of every aggregation.
aggVars == <<inputVars, filterVars, heroVars, matchupArgs, matchupVars, dayVars, mapVars,
             latestVars>>

(***************************************************************************)
(* Configuration                                                           *)
(***************************************************************************)
IN_GAME_NAMES == {"glacial_spark", "LunaToeMuncher", "LiquidusSnake1"}

FRIENDS == IN_GAME_NAMES

\* A player name that is in nobody's friend list.
Stranger == "Rando"

(***************************************************************************)
(* Python dictionaries and values                                          *)
(***************************************************************************)
\* The dict with no key.
EmptyDict == [k \in {} |-> TRUE]

\* d.get(k, default)
Get(d, k, default) == IF k \in DOMAIN d THEN d[k] ELSE default

\* d.get(k) == v, for a v that is not None: a missing key gives None, which equals no v.
GetEquals(d, k, v) == k \in DOMAIN d /\ d[k] = v

\* bool(d.get(k)) for a boolean field: None (missing) is falsy.
GetTruthy(d, k) == k \in DOMAIN d /\ d[k] = TRUE

\* The entries of a sequence as a set.
Range(s) == {s[i] : i \in DOMAIN s}

\* All sequences over S of length at most n.
SeqUpTo(S, n) == UNION {[1..k -> S] : k \in 0..n}

\* The match mapping {match_id: match_data} with ids 1..n in insertion order.
AsMapping(datas) == [i \in DOMAIN datas |-> [match_id |-> i, match_data |-> datas[i]]]

(***************************************************************************)
(* Filter stage                                                            *)
(***************************************************************************)
\* _check_if_friend_game without the exclusion of the viewed player (line 93 as
\* "return bool(friends_in_game)").
check_if_friend_game_counting_player(match_data, player) ==
    LET match_details == Get(match_data, "match_details", <<>>)
        same_team == {i \in DOMAIN match_details : GetTruthy(match_details[i], "is_same_team")}
    IN  IF match_details = <<>>
        THEN [raised |-> "none", value |-> FALSE]
        ELSE IF \E i \in same_team : "name" \notin DOMAIN match_details[i]
        THEN [raised |-> "KeyError", value |-> FALSE]
        ELSE [raised |-> "none",
              value |-> {match_details[i].name : i \in same_team} \cap FRIENDS # {}]

\* _check_if_friend_game: [raised, value]. player_data["name"] is evaluated for
\* every record whose is_same_team is truthy, and raises KeyError when missing.
_check_if_friend_game(match_data, player) ==
    LET match_details == Get(match_data, "match_details", <<>>)
        same_team == {i \in DOMAIN match_details : GetTruthy(match_details[i], "is_same_team")}
    IN  IF match_details = <<>>
        THEN [raised |-> "none", value |-> FALSE]
        ELSE IF \E i \in same_team : "name" \notin DOMAIN match_details[i]
        THEN [raised |-> "KeyError", value |-> FALSE]
        ELSE LET teammates == {match_details[i].name : i \in same_team}
                 friends_in_game == teammates \cap FRIENDS
             IN  [raised |-> "none", value |-> \E friend \in friends_in_game : friend # player]

\* filter_matches: [raised, value]; the comprehension keeps the mapping's order.
filter_matches(ms, only_friends, player) ==
    IF ~only_friends
    THEN [raised |-> "none", value |-> ms]
    ELSE IF \E i \in DOMAIN ms : _check_if_friend_game(ms[i].match_data, player).raised # "none"
    THEN [raised |-> "KeyError", value |-> <<>>]
    ELSE [raised |-> "none",
          value |-> SelectSeq(ms, LAMBDA e : _check_if_friend_game(e.match_data, player).value)]

(***************************************************************************)
(* Numbers and result dicts                                                *)
(***************************************************************************)
Abs(n) == IF n < 0 THEN -n ELSE n

RECURSIVE GCD(_, _)
GCD(a, b) == IF b = 0 THEN a ELSE GCD(b, a % b)

\* total / num_games, Python's true division of an int by a positive int: the float
\* result is kept as the fraction in lowest terms, so that two quotients are equal
\* exactly when the floats are.
TrueDiv(total, n) ==
    LET g == GCD(Abs(total), n)
    IN  [num |-> total \div g, den |-> n \div g]

\* The float of an int.
Float(n) == [num |-> n, den |-> 1]

FloatGreater(x, y) == x.num * y.den > y.num * x.den

\* A result dict is a sequence of <<key, value>> in insertion order.
Keys(d) == {d[i][1] : i \in DOMAIN d}

HasKey(d, k) == \E i \in DOMAIN d : d[i][1] = k

\* d[k], for a key of d.
At(d, k) == d[CHOOSE i \in DOMAIN d : d[i][1] = k][2]

\* dict(sorted(items, key=lambda item: item[1], reverse=True)) on int values:
\* descending by value, items of equal value in their original order (sorted is
\* stable, also when reversed).
SortedDescInt(items) ==
    LET Rank(i) == Cardinality({j \in DOMAIN items : items[j][2] > items[i][2]})
                   + Cardinality({j \in DOMAIN items : j < i /\ items[j][2] = items[i][2]})
                   + 1
    IN  [r \in DOMAIN items |-> items[CHOOSE i \in DOMAIN items : Rank(i) = r]]

\* The same on float values.
SortedDescFloat(items) ==
    LET Rank(i) == Cardinality({j \in DOMAIN items : FloatGreater(items[j][2], items[i][2])})
                   + Cardinality({j \in DOMAIN items : j < i /\ items[j][2] = items[i][2]})
                   + 1
    IN  [r \in DOMAIN items |-> items[CHOOSE i \in DOMAIN items : Rank(i) = r]]

(***************************************************************************)
(* Hero aggregation                                                        *)
(***************************************************************************)
\* The least number of games of a hero shown in the hero charts.
MinHeroGames == 5

\* stats[hero]["total_plus_minus"] += delta; stats[hero]["num_games"] += 1 on a
\* defaultdict: an absent hero is inserted, at the end, with zeros first.
AddGame(stats, hero, delta) ==
    IF \E i \in DOMAIN stats : stats[i].key = hero
    THEN [i \in DOMAIN stats |->
            IF stats[i].key = hero
            THEN [key |-> hero,
                  total_plus_minus |-> stats[i].total_plus_minus + delta,
                  num_games |-> stats[i].num_games + 1]
            ELSE stats[i]]
    ELSE Append(stats, [key |-> hero, total_plus_minus |-> delta, num_games |-> 1])

\* The same, charging the game to the first hero of the record only.
AddHeroesFirstOnly(stats, heroes, delta) ==
    IF heroes = <<>> THEN stats ELSE AddGame(stats, Head(heroes), delta)

\* for hero in player_data.get("heroes", []): ... += player_data.get("rank_delta", 0)
RECURSIVE AddHeroes(_, _, _)
AddHeroes(stats, heroes, delta) ==
    IF heroes = <<>>
    THEN stats
    ELSE AddHeroes(AddGame(stats, Head(heroes), delta), Tail(heroes), delta)

\* for player_data in match_data.get("match_details", []): if name == player_ign: ...
RECURSIVE AddRecords(_, _, _)
AddRecords(stats, details, player) ==
    IF details = <<>>
    THEN stats
    ELSE LET player_data == Head(details)
         IN  AddRecords(IF GetEquals(player_data, "name", player)
                        THEN AddHeroes(stats, Get(player_data, "heroes", <<>>),
                                       Get(player_data, "rank_delta", 0))
                        ELSE stats,
                        Tail(details), player)

\* The loop over the matches, skipping a match whose timestamp is absent or does not
\* parse.
RECURSIVE AddMatchesWithTimestamp(_, _, _)
AddMatchesWithTimestamp(stats, ms, player) ==
    IF ms = <<>>
    THEN stats
    ELSE AddMatchesWithTimestamp(
             IF /\ "match_timestamp" \in DOMAIN Head(ms).match_data
                /\ Head(ms).match_data.match_timestamp.kind = "iso"
             THEN AddRecords(stats, Get(Head(ms).match_data, "match_details", <<>>), player)
             ELSE stats,
             Tail(ms), player)

\* for _, match_data in filtered_matches.items(): ...
RECURSIVE AddMatches(_, _, _)
AddMatches(stats, ms, player) ==
    IF ms = <<>>
    THEN stats
    ELSE AddMatches(AddRecords(stats, Get(Head(ms).match_data, "match_details", <<>>), player),
                    Tail(ms), player)

\* hero_stats at the end of the loop of get_overall_plus_minus.
overall_hero_stats(ms, player) == AddMatches(<<>>, ms, player)

\* hero_stats at the end of the loop of get_average_plus_minus.
average_hero_stats(ms, player) == AddMatches(<<>>, ms, player)

\* {hero: stats["total_plus_minus"] for hero, stats in hero_stats.items()}
TotalItems(stats) == [i \in DOMAIN stats |-> <<stats[i].key, stats[i].total_plus_minus>>]

\* {hero: stats["total_plus_minus"] / stats["num_games"] for hero, stats in ...}
AverageItems(stats) ==
    [i \in DOMAIN stats |-> <<stats[i].key, TrueDiv(stats[i].total_plus_minus, stats[i].num_games)>>]

\* get_overall_plus_minus returning every hero of hero_stats.
get_overall_plus_minus_no_floor(ms, player) ==
    SortedDescInt(TotalItems(overall_hero_stats(ms, player)))

get_overall_plus_minus(ms, player) ==
    LET hero_stats_end == overall_hero_stats(ms, player)
        filtered_hero_stats ==
            TotalItems(SelectSeq(hero_stats_end, LAMBDA st : st.num_games >= MinHeroGames))
    IN  SortedDescInt(filtered_hero_stats)

\* get_average_plus_minus keeping the heroes of more than MinHeroGames games.
get_average_plus_minus_strict_floor(ms, player) ==
    SortedDescFloat(AverageItems(SelectSeq(average_hero_stats(ms, player),
                                           LAMBDA st : st.num_games > MinHeroGames)))

get_average_plus_minus(ms, player) ==
    LET hero_stats_end == average_hero_stats(ms, player)
        results == AverageItems(SelectSeq(hero_stats_end,
                                          LAMBDA st : st.num_games >= MinHeroGames))
    IN  SortedDescFloat(results)

(***************************************************************************)
(* Matchup aggregation                                                     *)
(***************************************************************************)
\* current_player_list = [pd for pd in details if pd.get("name") == player_ign]
current_player_list(details, player) ==
    SelectSeq(details, LAMBDA pd : GetEquals(pd, "name", player))

\* target_players with every other record that has an is_same_team field, whatever
\* its value.
target_players_any_team(details, player, teammates, friends_only) ==
    LET others == SelectSeq(details, LAMBDA pd : ~GetEquals(pd, "name", player)
                                                  /\ "is_same_team" \in DOMAIN pd)
    IN  IF teammates /\ friends_only
        THEN SelectSeq(others, LAMBDA pd : "name" \in DOMAIN pd /\ pd.name \in FRIENDS)
        ELSE others

\* target_players: the other records with pd.get("is_same_team") == target_teammates
\* (None, of a missing field, equals neither True nor False), narrowed to FRIENDS when
\* target_teammates and filter_teammates_to_friends.
target_players(details, player, teammates, friends_only) ==
    LET others == SelectSeq(details, LAMBDA pd : ~GetEquals(pd, "name", player)
                                                  /\ GetEquals(pd, "is_same_team", teammates))
    IN  IF teammates /\ friends_only
        THEN SelectSeq(others, LAMBDA pd : "name" \in DOMAIN pd /\ pd.name \in FRIENDS)
        ELSE others

\* for hero in target.get("heroes", []): matchups[hero] += delta, one game each
RECURSIVE AddTargetHeroes(_, _, _)
AddTargetHeroes(stats, heroes, delta) ==
    IF heroes = <<>>
    THEN stats
    ELSE AddTargetHeroes(AddGame(stats, Head(heroes), delta), Tail(heroes), delta)

\* The loop over the targets charging each target's own rank_delta.
RECURSIVE AddTargetsOwnDelta(_, _, _)
AddTargetsOwnDelta(stats, targets, current_player) ==
    IF targets = <<>>
    THEN stats
    ELSE AddTargetsOwnDelta(AddTargetHeroes(stats, Get(Head(targets), "heroes", <<>>),
                                            Get(Head(targets), "rank_delta", 0)),
                            Tail(targets), current_player)

\* for target in target_players: ... += current_player.get("rank_delta", 0)
RECURSIVE AddTargets(_, _, _)
AddTargets(stats, targets, current_player) ==
    IF targets = <<>>
    THEN stats
    ELSE AddTargets(AddTargetHeroes(stats, Get(Head(targets), "heroes", <<>>),
                                    Get(current_player, "rank_delta", 0)),
                    Tail(targets), current_player)

\* The body of the loop over the matches, in get_matchups and in get_total_matchups.
AddMatchup(stats, match_data, player, char, teammates, friends_only) ==
    LET details == Get(match_data, "match_details", <<>>)
        players == current_player_list(details, player)
    IN  IF players = <<>>
        THEN stats
        ELSE IF char \notin Range(Get(players[1], "heroes", <<>>))
        THEN stats
        ELSE AddTargets(stats, target_players(details, player, teammates, friends_only),
                        players[1])

RECURSIVE AddMatchups(_, _, _, _, _, _)
AddMatchups(stats, ms, player, char, teammates, friends_only) ==
    IF ms = <<>>
    THEN stats
    ELSE AddMatchups(AddMatchup(stats, Head(ms).match_data, player, char, teammates, friends_only),
                     Tail(ms), player, char, teammates, friends_only)

\* get_matchups with the floor of the hero charts.
get_matchups_with_floor(ms, player, char, teammates, friends_only) ==
    SortedDescFloat(AverageItems(SelectSeq(
        AddMatchups(<<>>, ms, player, char, teammates, friends_only),
        LAMBDA st : st.num_games >= MinHeroGames)))

get_matchups(ms, player, char, teammates, friends_only) ==
    LET matchups == AddMatchups(<<>>, ms, player, char, teammates, friends_only)
        results == AverageItems(SelectSeq(matchups, LAMBDA st : st.num_games > 0))
    IN  SortedDescFloat(results)

\* get_total_matchups: the defaultdict(int) holds the totals alone.
get_total_matchups(ms, player, char, teammates, friends_only) ==
    LET matchups == AddMatchups(<<>>, ms, player, char, teammates, friends_only)
    IN  SortedDescInt(TotalItems(matchups))

(***************************************************************************)
(* Day-of-week aggregation                                                 *)
(***************************************************************************)
days_order == <<"Monday", "Tuesday", "Wednesday", "Thursday", "Friday", "Saturday", "Sunday">>

\* A match_timestamp string is kept by what it spells: kind "iso" for a string of the
\* format %Y-%m-%dT%H:%M:%S%z, with its day (counted from a Monday, day 0), its hour
\* and its UTC offset in hours; kind "garbage" for a string of another shape; kind
\* "empty" for "".
Timestamp(day, hour, offset) == [kind |-> "iso", day |-> day, hour |-> hour, offset |-> offset]

GarbageTimestamp == [kind |-> "garbage"]

EmptyTimestamp == [kind |-> "empty"]

\* The offset of pst_offset, in hours.
PstOffsetHours == -8

\* convert_datetime: strptime, then astimezone(pst_offset); None when strptime raises
\* ValueError. The result is the hour count of the local time in the PST zone.
convert_datetime(match_timestamp) ==
    IF match_timestamp.kind = "iso"
    THEN [none |-> FALSE,
          pst_hours |-> match_timestamp.day * 24 + match_timestamp.hour
                        - match_timestamp.offset + PstOffsetHours]
    ELSE [none |-> TRUE, pst_hours |-> 0]

\* pst_time_obj.strftime('%A')
DayName(pst_time_obj) == days_order[((pst_time_obj.pst_hours \div 24) % 7) + 1]

\* The loop over match_details without its break: every record of the player is counted.
AddDayGameEveryRecord(day_stats, details, player, day_name) ==
    LET players == current_player_list(details, player)
        RECURSIVE AddFrom(_, _)
        AddFrom(stats, i) ==
            IF i > Len(players)
            THEN stats
            ELSE AddFrom(AddGame(stats, day_name, Get(players[i], "rank_delta", 0)), i + 1)
    IN  AddFrom(day_stats, 1)

\* The loop over match_details of get_performance_by_day_of_week: the first record of
\* the player is counted, then break.
AddDayGame(day_stats, details, player, day_name) ==
    LET players == current_player_list(details, player)
    IN  IF players = <<>>
        THEN day_stats
        ELSE AddGame(day_stats, day_name, Get(players[1], "rank_delta", 0))

\* The body of the loop over the matches.
AddDay(day_stats, match_data, player) ==
    IF "match_timestamp" \notin DOMAIN match_data \/ match_data.match_timestamp.kind = "empty"
    THEN day_stats
    ELSE LET pst_time_obj == convert_datetime(match_data.match_timestamp)
         IN  IF pst_time_obj.none
             THEN day_stats
             ELSE AddDayGame(day_stats, Get(match_data, "match_details", <<>>), player,
                             DayName(pst_time_obj))

RECURSIVE AddDays(_, _, _)
AddDays(day_stats, ms, player) ==
    IF ms = <<>>
    THEN day_stats
    ELSE AddDays(AddDay(day_stats, Head(ms).match_data, player), Tail(ms), player)

\* The stats of a day of day_stats.
DayStats(day_stats, day) == day_stats[CHOOSE i \in DOMAIN day_stats : day_stats[i].key = day]

\* total_performance: {day: ... for day in days_order if day in day_stats}
total_performance(day_stats) ==
    LET days == SelectSeq(days_order, LAMBDA day : \E i \in DOMAIN day_stats : day_stats[i].key = day)
    IN  [i \in DOMAIN days |-> <<days[i], DayStats(day_stats, days[i]).total_plus_minus>>]

\* average_performance: ... if day in day_stats and day_stats[day]["num_games"] > 0
average_performance(day_stats) ==
    LET days == SelectSeq(days_order,
                          LAMBDA day : \E i \in DOMAIN day_stats :
                                          day_stats[i].key = day /\ day_stats[i].num_games > 0)
    IN  [i \in DOMAIN days |->
            <<days[i], TrueDiv(DayStats(day_stats, days[i]).total_plus_minus,
                               DayStats(day_stats, days[i]).num_games)>>]

\* get_performance_by_day_of_week returning total_performance and average_performance
\* themselves, without the pass over days_order that fills the other days.
get_performance_by_day_of_week_unfilled(ms, player) ==
    [total |-> total_performance(AddDays(<<>>, ms, player)),
     average |-> average_performance(AddDays(<<>>, ms, player))]

\* get_performance_by_day_of_week: (ordered_total_performance, ordered_average_performance)
get_performance_by_day_of_week(ms, player) ==
    LET day_stats == AddDays(<<>>, ms, player)
        totals == total_performance(day_stats)
        averages == average_performance(day_stats)
    IN  [total |-> [i \in DOMAIN days_order |->
                       <<days_order[i],
                         IF HasKey(totals, days_order[i]) THEN At(totals, days_order[i]) ELSE 0>>],
         average |-> [i \in DOMAIN days_order |->
                       <<days_order[i],
                         IF HasKey(averages, days_order[i])
                         THEN At(averages, days_order[i])
                         ELSE Float(0)>>]]

(***************************************************************************)
(* Map aggregations                                                        *)
(***************************************************************************)
MAP_NAME_TO_MAP_TYPE ==
    <<<<"Spider-Islands", "Convoy">>,
      <<"Krakoa", "Domination">>,
      <<"Yggdrasill Path", "Convoy">>,
      <<"Birnin T'Challa", "Domination">>,
      <<"Central Park", "Convergence">>,
      <<"Symbiotic Surface", "Convergence">>,
      <<"Hell's Heaven", "Domination">>,
      <<"Midtown", "Convoy">>,
      <<"Hall Of Djalia", "Convergence">>,
      <<"Arakko", "Convoy">>>>

\* The two defaultdict(int) a map aggregation starts with.
NoMaps == [map_data |-> <<>>, map_games |-> <<>>]

\* d[k] += v on a defaultdict(int).
AddInt(d, k, v) ==
    IF HasKey(d, k)
    THEN [i \in DOMAIN d |-> IF d[i][1] = k THEN <<k, d[i][2] + v>> ELSE d[i]]
    ELSE Append(d, <<k, v>>)

\* The body of the loop with map_data[key] read before the test on the heroes: the
\* defaultdict gets the key for every match of the player.
AddHeroOnMapTouchingTotal(acc, key, match_data, player, char) ==
    LET player_list == current_player_list(Get(match_data, "match_details", <<>>), player)
    IN  IF player_list = <<>>
        THEN acc
        ELSE IF char \in Range(Get(player_list[1], "heroes", <<>>))
             THEN [map_data |-> AddInt(acc.map_data, key, Get(player_list[1], "rank_delta", 0)),
                   map_games |-> AddInt(acc.map_games, key, 1)]
             ELSE [map_data |-> AddInt(acc.map_data, key, 0), map_games |-> acc.map_games]

\* The body of the loop of both map aggregations, after the key (map name or map type)
\* is known: player_list, player_data = player_list[0], the two += .
AddHeroOnMap(acc, key, match_data, player, char) ==
    LET player_list == current_player_list(Get(match_data, "match_details", <<>>), player)
    IN  IF player_list = <<>>
        THEN acc
        ELSE IF char \in Range(Get(player_list[1], "heroes", <<>>))
             THEN [map_data |-> AddInt(acc.map_data, key, Get(player_list[1], "rank_delta", 0)),
                   map_games |-> AddInt(acc.map_games, key, 1)]
             ELSE acc

RECURSIVE AddMaps(_, _, _, _)
AddMaps(acc, ms, player, char) ==
    IF ms = <<>>
    THEN acc
    ELSE AddMaps(AddHeroOnMap(acc, Get(Head(ms).match_data, "map", "Unknown"),
                              Head(ms).match_data, player, char),
                 Tail(ms), player, char)

\* get_map_performance_for_hero: (map_data, map_games)
get_map_performance_for_hero(ms, player, char) == AddMaps(NoMaps, ms, player, char)

\* The lookup as MAP_NAME_TO_MAP_TYPE.get(match_data.get("map"), "Unknown").
map_type_lookup_with_fallback(match_data) ==
    IF "map" \in DOMAIN match_data /\ HasKey(MAP_NAME_TO_MAP_TYPE, match_data.map)
    THEN [raised |-> "none", value |-> At(MAP_NAME_TO_MAP_TYPE, match_data.map)]
    ELSE [raised |-> "none", value |-> "Unknown"]

\* MAP_NAME_TO_MAP_TYPE[match_data["map"]]: both subscripts raise KeyError.
map_type_lookup(match_data) ==
    IF "map" \in DOMAIN match_data /\ HasKey(MAP_NAME_TO_MAP_TYPE, match_data.map)
    THEN [raised |-> "none", value |-> At(MAP_NAME_TO_MAP_TYPE, match_data.map)]
    ELSE [raised |-> "KeyError", value |-> "none"]

\* The loop of get_map_type_performance_for_hero: the lookup comes first, for every match.
RECURSIVE AddMapTypes(_, _, _, _)
AddMapTypes(acc, ms, player, char) ==
    IF ms = <<>>
    THEN [raised |-> "none", value |-> acc]
    ELSE LET map_type == map_type_lookup(Head(ms).match_data)
         IN  IF map_type.raised # "none"
             THEN [raised |-> map_type.raised, value |-> NoMaps]
             ELSE AddMapTypes(AddHeroOnMap(acc, map_type.value, Head(ms).match_data,
                                           player, char),
                              Tail(ms), player, char)

\* get_map_type_performance_for_hero: (map_data, map_games), or the KeyError.
get_map_type_performance_for_hero(ms, player, char) == AddMapTypes(NoMaps, ms, player, char)

(***************************************************************************)
(* get_latest_games                                                        *)
(***************************************************************************)
\* "1970-01-01T00:00:00+00:00", the default of x.get("match_timestamp", ...): a day long
\* before day 0.
EpochTimestamp == Timestamp(-20000, 0, 0)

\* datetime.datetime.min.replace(tzinfo=utc) as an hour count: before every timestamp.
DatetimeMinHours == -20000000

\* The sort key: convert_datetime(x.get("match_timestamp", epoch)) or datetime.min
LatestKey(match) ==
    LET parsed == convert_datetime(Get(match, "match_timestamp", EpochTimestamp))
    IN  IF parsed.none THEN DatetimeMinHours ELSE parsed.pst_hours

\* sorted(matches_list, key=..., reverse=True): descending by key, matches of equal key
\* in their original order.
SortedLatest(matches_list) ==
    LET Rank(i) ==
            Cardinality({j \in DOMAIN matches_list :
                            LatestKey(matches_list[j]) > LatestKey(matches_list[i])})
            + Cardinality({j \in DOMAIN matches_list :
                              j < i /\ LatestKey(matches_list[j]) = LatestKey(matches_list[i])})
            + 1
    IN  [r \in DOMAIN matches_list |->
            matches_list[CHOOSE i \in DOMAIN matches_list : Rank(i) = r]]

relevant_data_keys == {"match_timestamp", "map", "is_win", "match_details"}

\* {k: match.get(k) for k in relevant_data_keys if k in match}
GameInfo(match) == [k \in DOMAIN match \cap relevant_data_keys |-> match[k]]

\* The display form of a parsed time: strftime('%Y-%m-%d %H:%M:%S %Z').
Strftime(pst_time_obj) == [pst_hours |-> pst_time_obj.pst_hours]

\* The body of the loop over sorted_matches[:num_games]: a timestamp that is truthy (not
\* "") is converted and formatted; strftime on the None of a timestamp that does not
\* parse raises AttributeError.
LatestGame(match) ==
    LET game_info == GameInfo(match)
    IN  IF "match_timestamp" \in DOMAIN game_info /\ game_info.match_timestamp.kind # "empty"
        THEN LET pst_time_obj == convert_datetime(game_info.match_timestamp)
             IN  IF pst_time_obj.none
                 THEN [raised |-> "AttributeError", value |-> game_info]
                 ELSE [raised |-> "none",
                       value |-> [match_timestamp_pst |-> Strftime(pst_time_obj)] @@ game_info]
        ELSE [raised |-> "none", value |-> game_info]

RECURSIVE LatestGames(_, _)
LatestGames(latest_games_data, sorted_matches) ==
    IF sorted_matches = <<>>
    THEN [raised |-> "none", value |-> latest_games_data]
    ELSE LET game == LatestGame(Head(sorted_matches))
         IN  IF game.raised # "none"
             THEN [raised |-> game.raised, value |-> <<>>]
             ELSE LatestGames(Append(latest_games_data, game.value), Tail(sorted_matches))

\* get_latest_games(filtered_matches, num_games): latest_games_data, or the error.
get_latest_games(ms, n) ==
    LET matches_list == [i \in DOMAIN ms |-> ms[i].match_data]
        sorted_matches == SortedLatest(matches_list)
    IN  LatestGames(<<>>, SubSeq(sorted_matches, 1,
                                 IF n < Len(sorted_matches) THEN n ELSE Len(sorted_matches)))

(***************************************************************************)
(* Chart builders                                                          *)
(***************************************************************************)
\* return None
NoChart == [none |-> TRUE]

\* The orders of the rows that df.sort_values(by=..., ascending=False) can give on int
\* values: descending by value; the default sort kind is not stable, so rows of equal
\* value come in any order.
DescendingOrdersInt(items) ==
    {p \in [DOMAIN items -> DOMAIN items] :
        /\ \A i, j \in DOMAIN items : i # j => p[i] # p[j]
        /\ \A i, j \in DOMAIN items : i < j => items[p[i]][2] >= items[p[j]][2]}

\* The same on float values.
DescendingOrdersFloat(items) ==
    {p \in [DOMAIN items -> DOMAIN items] :
        /\ \A i, j \in DOMAIN items : i # j => p[i] # p[j]
        /\ \A i, j \in DOMAIN items : i < j => ~FloatGreater(items[p[j]][2], items[p[i]][2])}

\* The rows in the order p.
Arranged(items, p) == [i \in DOMAIN items |-> items[p[i]]]

\* go.Figure() with one go.Bar(x=..., y=..., marker_color=colors) over int values:
\* 'blue' if delta >= 0 else 'red'.
BarInt(rows) ==
    [none |-> FALSE,
     x |-> [i \in DOMAIN rows |-> rows[i][1]],
     y |-> [i \in DOMAIN rows |-> rows[i][2]],
     marker_color |-> [i \in DOMAIN rows |-> IF rows[i][2] >= 0 THEN "blue" ELSE "red"]]

\* The same over float values.
BarFloat(rows) ==
    [none |-> FALSE,
     x |-> [i \in DOMAIN rows |-> rows[i][1]],
     y |-> [i \in DOMAIN rows |-> rows[i][2]],
     marker_color |-> [i \in DOMAIN rows |-> IF rows[i][2].num >= 0 THEN "blue" ELSE "red"]]

\* The figures a builder can return for rows sorted by their int (float) values.
SortedBarsInt(items) == {BarInt(Arranged(items, p)) : p \in DescendingOrdersInt(items)}

SortedBarsFloat(items) == {BarFloat(Arranged(items, p)) : p \in DescendingOrdersFloat(items)}

create_hero_average_chart(avg_pm_arg) ==
    IF avg_pm_arg = <<>> THEN {NoChart} ELSE SortedBarsFloat(avg_pm_arg)

create_hero_total_chart(overall_pm_arg) ==
    IF overall_pm_arg = <<>> THEN {NoChart} ELSE SortedBarsInt(overall_pm_arg)

create_matchup_chart(matchup_data) ==
    IF matchup_data = <<>> THEN {NoChart} ELSE SortedBarsFloat(matchup_data)

create_total_matchup_chart(matchup_data) ==
    IF matchup_data = <<>> THEN {NoChart} ELSE SortedBarsInt(matchup_data)

\* df_map['Average Delta'] = df_map['Rank Delta'] / df_map['Games'], with
\* Games = map_games.get(map_name, 1)
AverageDelta(map_data_arg, map_games_arg) ==
    [i \in DOMAIN map_data_arg |->
        <<map_data_arg[i][1],
          TrueDiv(map_data_arg[i][2],
                  IF HasKey(map_games_arg, map_data_arg[i][1])
                  THEN At(map_games_arg, map_data_arg[i][1])
                  ELSE 1)>>]

create_map_performance_chart(map_data_arg, map_games_arg, show_average_arg) ==
    IF map_data_arg = <<>>
    THEN {NoChart}
    ELSE IF show_average_arg
         THEN SortedBarsFloat(AverageDelta(map_data_arg, map_games_arg))
         ELSE SortedBarsInt(map_data_arg)

create_map_type_performance_chart(map_data_arg, map_games_arg, show_average_arg) ==
    IF map_data_arg = <<>>
    THEN {NoChart}
    ELSE IF show_average_arg
         THEN SortedBarsFloat(AverageDelta(map_data_arg, map_games_arg))
         ELSE SortedBarsInt(map_data_arg)

\* all(value == 0 for value in performance_data.values()): the totals are ints, the
\* averages floats.
AllZero(performance_data, is_average) ==
    \A i \in DOMAIN performance_data :
        performance_data[i][2] = IF is_average THEN Float(0) ELSE 0

\* create_performance_by_day_chart with the days sorted by value as the other builders do.
create_performance_by_day_chart_sorted(performance_data, is_average) ==
    IF performance_data = <<>> \/ AllZero(performance_data, is_average)
    THEN {NoChart}
    ELSE IF is_average THEN SortedBarsFloat(performance_data) ELSE SortedBarsInt(performance_data)

\* create_performance_by_day_chart: days = list(performance_data.keys()),
\* values = list(performance_data.values()), no sort.
create_performance_by_day_chart(performance_data, is_average) ==
    IF performance_data = <<>> \/ AllZero(performance_data, is_average)
    THEN {NoChart}
    ELSE IF is_average THEN {BarFloat(performance_data)} ELSE {BarInt(performance_data)}

(***************************************************************************)
(* Loading and the page                                                    *)
(***************************************************************************)
\* The keys of FILE_NAMES, in the order of IN_GAME_NAMES; the i-th data file is the one
\* of the i-th player.
FILE_NAMES == <<"glacial_spark", "LunaToeMuncher", "LiquidusSnake1">>

RELEVANT_CHARACTERS_MAP ==
    <<<<"glacial_spark", <<"Rocket Raccoon", "Doctor Strange", "Mister Fantastic", "Namor">>>>,
      <<"LunaToeMuncher", <<"Cloak & Dagger", "Scarlet Witch", "Peni Parker",
                            "Mister Fantastic", "Squirrel Girl">>>>>>

\* The body of the loop with available_players.append(ign) before json.load(f): a file
\* that opens and does not parse leaves its player listed.
LoadFileListingFirst(acc, ign, file) ==
    IF file.status = "ok"
    THEN [all_data |-> Append(acc.all_data, <<ign, file.content>>),
          available_players |-> Append(acc.available_players, ign)]
    ELSE IF file.status = "invalid"
         THEN [all_data |-> acc.all_data, available_players |-> Append(acc.available_players, ign)]
         ELSE acc

\* The body of the loop of load_all_player_data: FileNotFoundError (status "missing") and
\* json.JSONDecodeError (status "invalid") are caught, the player is skipped.
LoadFile(acc, ign, file) ==
    IF file.status = "ok"
    THEN [all_data |-> Append(acc.all_data, <<ign, file.content>>),
          available_players |-> Append(acc.available_players, ign)]
    ELSE acc

RECURSIVE LoadFiles(_, _, _)
LoadFiles(acc, fs, i) ==
    IF i > Len(FILE_NAMES)
    THEN acc
    ELSE LoadFiles(LoadFile(acc, FILE_NAMES[i], fs[i]), fs, i + 1)

\* load_all_player_data: (all_data, available_players)
load_all_player_data(fs) == LoadFiles([all_data |-> <<>>, available_players |-> <<>>], fs, 1)

\* all_player_data[selected_player_ign] once filter_matches and the aggregations have
\* been handed it, or its filtered copy: no function assigns to its mapping argument or
\* to a record of it.
player_matches_filtered_in_place(player_matches, filtered) == filtered

player_matches_after_run(player_matches, filtered) == player_matches

\* The Store with the mapping of a player replaced.
WithPlayerMatches(store, player, player_matches) ==
    [i \in DOMAIN store |-> IF store[i][1] = player THEN <<player, player_matches>> ELSE store[i]]

\* list(avg_pm.keys())
all_heroes_played(avg_pm_arg) == [i \in DOMAIN avg_pm_arg |-> avg_pm_arg[i][1]]

\* RELEVANT_CHARACTERS_MAP.get(selected_player_ign, all_heroes_played)
relevant_chars_of(player, heroes_played) ==
    IF HasKey(RELEVANT_CHARACTERS_MAP, player)
    THEN At(RELEVANT_CHARACTERS_MAP, player)
    ELSE heroes_played

\* What a section puts on the page: "if fig: st.plotly_chart(fig) else: st.info(...)".
Item(section, char, charts) == [section |-> section, char |-> char, chart |-> NoChart \notin charts]

\* st.warning(...) in place of a section.
Warning(section) == [section |-> section, char |-> "-", chart |-> FALSE]

\* The four items of a character's section, from the two matchup charts and the results
\* of the two map aggregations; the KeyError of the map type aggregation ends the run
\* after the third.
SectionItems(char, team, opp, by_map, by_type, averages) ==
    IF by_type.raised # "none"
    THEN [raised |-> by_type.raised,
          items |-> <<Item("team", char, team), Item("opp", char, opp),
                      Item("map", char,
                           create_map_performance_chart(by_map.map_data, by_map.map_games,
                                                        averages))>>]
    ELSE [raised |-> "none",
          items |-> <<Item("team", char, team), Item("opp", char, opp),
                      Item("map", char,
                           create_map_performance_chart(by_map.map_data, by_map.map_games,
                                                        averages)),
                      Item("map_type", char,
                           create_map_type_performance_chart(by_type.value.map_data,
                                                             by_type.value.map_games,
                                                             averages))>>]

\* The matchup chart of a character in the Averages tab (averages) or the Totals tab.
MatchupChart(filtered, player, char, teammates, friends_only, averages) ==
    IF averages
    THEN create_matchup_chart(get_matchups(filtered, player, char, teammates, friends_only))
    ELSE create_total_matchup_chart(
             get_total_matchups(filtered, player, char, teammates, friends_only))

\* The body of the loop over relevant_chars of either tab: teammate matchups (with the
\* friends checkbox), opponent matchups, map performance, map type performance.
CharSection(filtered, player, char, friends_only, averages) ==
    SectionItems(char,
                 MatchupChart(filtered, player, char, TRUE, friends_only, averages),
                 MatchupChart(filtered, player, char, FALSE, FALSE, averages),
                 get_map_performance_for_hero(filtered, player, char),
                 get_map_type_performance_for_hero(filtered, player, char),
                 averages)

\* The loop over relevant_chars with each section under a try/except that drops the
\* error and goes on.
RECURSIVE CharSectionsSkippingErrors(_, _, _, _, _, _)
CharSectionsSkippingErrors(items, chars, filtered, player, friends_only, averages) ==
    IF chars = <<>>
    THEN [raised |-> "none", items |-> items]
    ELSE CharSectionsSkippingErrors(
             items \o CharSection(filtered, player, Head(chars), friends_only, averages).items,
             Tail(chars), filtered, player, friends_only, averages)

RECURSIVE CharSections(_, _, _, _, _, _)

\* The loop after the section of its first character: an error ends it.
AfterSection(items, section, chars, filtered, player, friends_only, averages) ==
    IF section.raised # "none"
    THEN [raised |-> section.raised, items |-> items \o section.items]
    ELSE CharSections(items \o section.items, chars, filtered, player, friends_only, averages)

\* for char_to_analyze in relevant_chars: ...
CharSections(items, chars, filtered, player, friends_only, averages) ==
    IF chars = <<>>
    THEN [raised |-> "none", items |-> items]
    ELSE AfterSection(items,
                      CharSection(filtered, player, Head(chars), friends_only, averages),
                      Tail(chars), filtered, player, friends_only, averages)

\* The items of a tab: the hero chart, the sections, and the day-of-week chart when no
\* section raised.
TabItems(hero, sections, day) ==
    IF sections.raised # "none"
    THEN [raised |-> sections.raised, items |-> <<hero>> \o sections.items]
    ELSE [raised |-> "none", items |-> (<<hero>> \o sections.items) \o <<day>>]

\* The sections of the relevant characters, or the warning that there is none.
Sections(chars, filtered, player, friends_only, averages) ==
    IF chars = <<>>
    THEN [raised |-> "none", items |-> <<Warning("no_relevant_chars")>>]
    ELSE CharSections(<<>>, chars, filtered, player, friends_only, averages)

\* "with avg_tab:" (averages) and "with total_tab:": the hero chart, the sections of the
\* relevant characters, the day-of-week chart.
Tab(filtered, player, friends_only, hero_pm, avg_pm_arg, perf_by_day, averages) ==
    TabItems(Item("hero", "-", IF averages
                               THEN create_hero_average_chart(hero_pm)
                               ELSE create_hero_total_chart(hero_pm)),
             Sections(relevant_chars_of(player, all_heroes_played(avg_pm_arg)), filtered,
                      player, friends_only, averages),
             Item("day", "-", create_performance_by_day_chart(perf_by_day, averages)))

(***************************************************************************)
(* Inputs of the filter stage                                              *)
(***************************************************************************)
\* The longest match mapping handed to filter_matches.
MaxFilterMatches == 2

NameParts == {EmptyDict} \cup {[name |-> n] : n \in {"glacial_spark", "LunaToeMuncher", Stranger}}

TeamParts == {EmptyDict} \cup {[is_same_team |-> b] : b \in BOOLEAN}

\* Player records as the filter reads them: name and is_same_team, each present or not.
FilterRecords == {n @@ t : n \in NameParts, t \in TeamParts}

\* match_details of no record, of one record, or of the file owner's record and another.
FilterDetails ==
    {<<>>} \cup {<<r>> : r \in FilterRecords}
           \cup {<<[name |-> "glacial_spark", is_same_team |-> TRUE], r>> : r \in FilterRecords}

\* A match with match_details, or without the key.
FilterMatchData == {EmptyDict} \cup {[match_details |-> d] : d \in FilterDetails}

FilterPlayers == {"glacial_spark", "LunaToeMuncher"}

\* The values of the variables a run does not use.
NoHeroRun ==
    /\ hero_stats = <<>>
    /\ overall_pm = <<>>
    /\ avg_pm = <<>>

NoMatchupRun ==
    /\ character = "none"
    /\ target_teammates = FALSE
    /\ filter_teammates_to_friends = FALSE
    /\ matchups_avg = <<>>
    /\ matchups_total = <<>>

NoDayRun ==
    /\ total_perf_by_day = <<>>
    /\ avg_perf_by_day = <<>>

NoFilterRun ==
    /\ only_friend_games = FALSE
    /\ filtered_player_matches = <<>>

NoMapRun ==
    /\ map_data = <<>>
    /\ map_games = <<>>
    /\ map_type_data = <<>>
    /\ map_type_games = <<>>

NoLatestRun ==
    /\ num_games = 0
    /\ latest_games = <<>>

NoChartRun ==
    /\ chart_builder = "none"
    /\ chart_data = <<>>
    /\ chart_games = <<>>
    /\ show_average = FALSE
    /\ chart = NoChart

NoLoadRun ==
    /\ files = <<>>
    /\ cached = FALSE
    /\ all_player_data = <<>>
    /\ available_players = <<>>

NoPageRun ==
    /\ relevant_chars = <<>>
    /\ rendered = <<>>
    /\ steps = <<>>

NoUiRun ==
    /\ NoChartRun
    /\ NoLoadRun
    /\ NoPageRun

NoExtRun ==
    /\ NoMapRun
    /\ NoLatestRun
    /\ NoUiRun

InitFilter ==
    /\ matches \in {AsMapping(ds) : ds \in SeqUpTo(FilterMatchData, MaxFilterMatches)}
    /\ player_ign \in FilterPlayers
    /\ only_friend_games \in BOOLEAN
    /\ pc = "filter"
    /\ raised = "none"
    /\ NoExtRun
    /\ filtered_player_matches = <<>>
    /\ NoHeroRun
    /\ NoMatchupRun
    /\ NoDayRun

\* filtered_player_matches = filter_matches(player_matches, only_friend_games, selected_player_ign)
CallFilterMatches ==
    /\ pc = "filter"
    /\ LET r == filter_matches(matches, only_friend_games, player_ign)
       IN  /\ raised' = r.raised
           /\ filtered_player_matches' = r.value
    /\ pc' = "done"
    /\ UNCHANGED extVars
    /\ UNCHANGED <<matches, player_ign, only_friend_games, character, target_teammates,
                   filter_teammates_to_friends, hero_stats, overall_pm, avg_pm,
                   matchups_avg, matchups_total, total_perf_by_day, avg_perf_by_day>>

NextFilter == CallFilterMatches

SpecFilter == InitFilter /\ [][NextFilter]_vars

(***************************************************************************)
(* Claims on the filter stage                                              *)
(***************************************************************************)
\* The records of a match (none when match_details is missing).
DetailsOf(match_data) == Get(match_data, "match_details", <<>>)

\* A teammate other than the viewed player who is a friend.
FriendTeammate(rec, player) ==
    /\ "is_same_team" \in DOMAIN rec /\ rec.is_same_team = TRUE
    /\ "name" \in DOMAIN rec /\ rec.name # player /\ rec.name \in FRIENDS

HasFriendTeammate(match_data, player) ==
    \E rec \in Range(DetailsOf(match_data)) : FriendTeammate(rec, player)

\* Every record of every match has a name.
AllNamed(ms) ==
    \A i \in DOMAIN ms : \A rec \in Range(DetailsOf(ms[i].match_data)) : "name" \in DOMAIN rec

\* C1: with the flag false filter_matches returns its input mapping unchanged; with the
\* flag true it returns, in the input's order, exactly the matches in which some record
\* with is_same_team true and a name other than the viewed player's is in FRIENDS (the
\* viewed player never qualifies a match alone). It returns whenever every record has a name.
C1_FilterContract ==
    pc = "done" =>
        /\ AllNamed(matches) => raised = "none"
        /\ (raised = "none" /\ ~only_friend_games) => filtered_player_matches = matches
        /\ (raised = "none" /\ only_friend_games) =>
              filtered_player_matches =
                  SelectSeq(matches, LAMBDA e : HasFriendTeammate(e.match_data, player_ign))

\* C1 witness: a filtered run that drops a match whose only friend on the team is the
\* viewed player and keeps a match with another friend on the team.
C1_Witness ==
    /\ pc = "done" /\ raised = "none" /\ only_friend_games
    /\ player_ign \in FRIENDS
    /\ \E i \in DOMAIN matches :
          /\ \E rec \in Range(DetailsOf(matches[i].match_data)) :
                GetTruthy(rec, "is_same_team") /\ GetEquals(rec, "name", player_ign)
          /\ matches[i] \notin Range(filtered_player_matches)
    /\ \E i \in DOMAIN matches : matches[i] \in Range(filtered_player_matches)

MaxHeroMatches == 5

HeroNames == {"Namor", "Doctor Strange"}

\* The viewed player's record has one or two heroes and a rank_delta, or lacks one of
\* the two fields; a match holds it alone, or after another player's record, or has no
\* match_details.
HeroMatchData ==
    { [match_details |-> <<[name |-> "glacial_spark", is_same_team |-> TRUE,
                            rank_delta |-> 3, heroes |-> <<"Namor">>]>>],
      [match_details |-> <<[name |-> "glacial_spark", is_same_team |-> TRUE,
                            rank_delta |-> -3, heroes |-> <<"Namor", "Doctor Strange">>]>>],
      [match_details |-> <<[name |-> "glacial_spark", is_same_team |-> TRUE,
                            heroes |-> <<"Doctor Strange">>]>>],
      [match_details |-> <<[name |-> "LunaToeMuncher", is_same_team |-> TRUE,
                            rank_delta |-> 7, heroes |-> <<"Namor">>],
                           [name |-> "glacial_spark", is_same_team |-> TRUE,
                            rank_delta |-> 4]>>],
      EmptyDict }

InitHero ==
    /\ matches \in {AsMapping(ds) : ds \in SeqUpTo(HeroMatchData, MaxHeroMatches)}
    /\ player_ign = "glacial_spark"
    /\ pc = "overall"
    /\ raised = "none"
    /\ NoExtRun
    /\ NoFilterRun
    /\ NoHeroRun
    /\ NoMatchupRun
    /\ NoDayRun

\* overall_pm = get_overall_plus_minus(filtered_player_matches, selected_player_ign)
CallGetOverallPlusMinus ==
    /\ pc = "overall"
    /\ hero_stats' = overall_hero_stats(matches, player_ign)
    /\ overall_pm' = get_overall_plus_minus(matches, player_ign)
    /\ pc' = "average"
    /\ UNCHANGED extVars
    /\ UNCHANGED <<matches, player_ign, only_friend_games, character, target_teammates,
                   filter_teammates_to_friends, raised, filtered_player_matches, avg_pm,
                   matchups_avg, matchups_total, total_perf_by_day, avg_perf_by_day>>

\* avg_pm = get_average_plus_minus(filtered_player_matches, selected_player_ign)
CallGetAveragePlusMinus ==
    /\ pc = "average"
    /\ hero_stats' = average_hero_stats(matches, player_ign)
    /\ avg_pm' = get_average_plus_minus(matches, player_ign)
    /\ pc' = "done"
    /\ UNCHANGED extVars
    /\ UNCHANGED <<matches, player_ign, only_friend_games, character, target_teammates,
                   filter_teammates_to_friends, raised, filtered_player_matches, overall_pm,
                   matchups_avg, matchups_total, total_perf_by_day, avg_perf_by_day>>

NextHero == CallGetOverallPlusMinus \/ CallGetAveragePlusMinus

SpecHero == InitHero /\ [][NextHero]_vars

(***************************************************************************)
(* Claims on the hero aggregation                                          *)
(***************************************************************************)
\* The appearances of hero h: the (match, record, position) places where a record of
\* the viewed player lists h.
Appearances(ms, player, h) ==
    {<<i, j, k>> \in (DOMAIN ms) \X (1..2) \X (1..2) :
        /\ j \in DOMAIN DetailsOf(ms[i].match_data)
        /\ GetEquals(DetailsOf(ms[i].match_data)[j], "name", player)
        /\ k \in DOMAIN Get(DetailsOf(ms[i].match_data)[j], "heroes", <<>>)
        /\ DetailsOf(ms[i].match_data)[j].heroes[k] = h}

\* The rank_delta of the record of a place, 0 when the record has none.
DeltaAt(ms, place) == Get(DetailsOf(ms[place[1]].match_data)[place[2]], "rank_delta", 0)

RECURSIVE SumDeltas(_, _)
SumDeltas(ms, places) ==
    IF places = {}
    THEN 0
    ELSE LET place == CHOOSE x \in places : TRUE
         IN  DeltaAt(ms, place) + SumDeltas(ms, places \ {place})

Games(ms, player, h) == Cardinality(Appearances(ms, player, h))

TotalDelta(ms, player, h) == SumDeltas(ms, Appearances(ms, player, h))

OverallDone == pc \in {"average", "done"}

\* C2, as stated: the "Total" aggregation has every hero of at least one game as a key,
\* with the sum of the player's rank_delta over the hero's games; only heroes of no game
\* are absent.
C2_TotalIsRawSums ==
    OverallDone =>
        /\ Keys(overall_pm) = {h \in HeroNames : Games(matches, player_ign, h) >= 1}
        /\ \A h \in Keys(overall_pm) : At(overall_pm, h) = TotalDelta(matches, player_ign, h)

\* C2, amended: the "Total" aggregation has a key for hero h exactly when h has at least
\* 5 games, the same floor as the "Average" variant, and maps it to the sum of the
\* player's rank_delta over the hero's games; a hero of 1 to 4 games is dropped.
C2_TotalHasFloor ==
    OverallDone =>
        /\ Keys(overall_pm) = {h \in HeroNames : Games(matches, player_ign, h) >= MinHeroGames}
        /\ Len(overall_pm) = Cardinality(Keys(overall_pm))
        /\ \A h \in Keys(overall_pm) : At(overall_pm, h) = TotalDelta(matches, player_ign, h)

\* C2 witness: a hero of 5 games is a key and a hero of 1 to 4 games is not.
C2_Witness ==
    /\ OverallDone
    /\ \E h \in HeroNames : Games(matches, player_ign, h) >= MinHeroGames /\ HasKey(overall_pm, h)
    /\ \E h \in HeroNames :
          /\ Games(matches, player_ign, h) \in 1..(MinHeroGames - 1)
          /\ ~HasKey(overall_pm, h)

\* C3: the "Average" aggregation has a key for hero h if and only if h has at least 5
\* games, and every value is the hero's summed rank_delta divided by its game count; a
\* hero of fewer games is dropped, not zero-filled.
C3_AverageFloorAndQuotient ==
    pc = "done" =>
        /\ Keys(avg_pm) = {h \in HeroNames : Games(matches, player_ign, h) >= MinHeroGames}
        /\ Len(avg_pm) = Cardinality(Keys(avg_pm))
        /\ \A h \in Keys(avg_pm) :
              /\ At(avg_pm, h).den > 0
              /\ At(avg_pm, h).num * Games(matches, player_ign, h)
                     = TotalDelta(matches, player_ign, h) * At(avg_pm, h).den

\* C3 witness: a hero of exactly 5 games is averaged to a non-integer, and a hero of
\* 1 to 4 games is absent.
C3_Witness ==
    /\ pc = "done"
    /\ \E h \in HeroNames :
          /\ Games(matches, player_ign, h) = MinHeroGames
          /\ HasKey(avg_pm, h) /\ At(avg_pm, h).den > 1
    /\ \E h \in HeroNames :
          /\ Games(matches, player_ign, h) \in 1..(MinHeroGames - 1)
          /\ ~HasKey(avg_pm, h)

\* C4: in both hero aggregations the accumulator holds, for every hero, the number of
\* (match, hero) pairs of the player's own record as its game count and the sum of the
\* record's full rank_delta over those pairs as its total: a two-hero match is a full
\* game with the full delta for each hero, and no pair is counted twice or skipped.
C4_OncePerMatchHeroPair ==
    (pc \in {"average", "done"}) =>
        /\ {hero_stats[i].key : i \in DOMAIN hero_stats}
               = {h \in HeroNames : Games(matches, player_ign, h) >= 1}
        /\ \A i \in DOMAIN hero_stats :
              /\ hero_stats[i].num_games = Games(matches, player_ign, hero_stats[i].key)
              /\ hero_stats[i].total_plus_minus
                     = TotalDelta(matches, player_ign, hero_stats[i].key)
              /\ \A j \in DOMAIN hero_stats : hero_stats[j].key = hero_stats[i].key => j = i

\* C4 witness: a match with two heroes has been counted, as a game of each.
C4_Witness ==
    /\ pc \in {"average", "done"}
    /\ \E i \in DOMAIN matches, j \in 1..2 :
          /\ <<i, j, 1>> \in Appearances(matches, player_ign, "Namor")
          /\ <<i, j, 2>> \in Appearances(matches, player_ign, "Doctor Strange")
    /\ \E i \in DOMAIN hero_stats : hero_stats[i].key = "Doctor Strange"

(***************************************************************************)
(* Inputs of the matchup aggregation                                       *)
(***************************************************************************)
\* The longest match mapping handed to the matchup aggregation.
MaxMatchupMatches == 2

TargetHeroNames == {"Rocket Raccoon", "Scarlet Witch"}

\* Records of the viewed player: two that play Namor, one that plays it among two
\* heroes and has no rank_delta, one that does not play it.
OwnWin == [name |-> "glacial_spark", is_same_team |-> TRUE, rank_delta |-> 10,
           heroes |-> <<"Namor">>]

OwnLoss == [name |-> "glacial_spark", is_same_team |-> TRUE, rank_delta |-> -5,
            heroes |-> <<"Namor">>]

OwnNoDelta == [name |-> "glacial_spark", is_same_team |-> TRUE,
               heroes |-> <<"Doctor Strange", "Namor">>]

OwnOtherHero == [name |-> "glacial_spark", is_same_team |-> TRUE, rank_delta |-> 10,
                 heroes |-> <<"Doctor Strange">>]

\* Records of other players: a friend and a stranger on the team, a stranger and a
\* friend against it, and records that lack is_same_team, name or heroes.
FriendMate == [name |-> "LunaToeMuncher", is_same_team |-> TRUE, rank_delta |-> 7,
               heroes |-> <<"Rocket Raccoon">>]

StrangerMate == [name |-> Stranger, is_same_team |-> TRUE, rank_delta |-> 7,
                 heroes |-> <<"Scarlet Witch">>]

Opponent == [name |-> Stranger, is_same_team |-> FALSE, rank_delta |-> 7,
             heroes |-> <<"Scarlet Witch">>]

FriendOpponent == [name |-> "LunaToeMuncher", is_same_team |-> FALSE, rank_delta |-> 7,
                   heroes |-> <<"Rocket Raccoon", "Scarlet Witch">>]

NoTeamField == [name |-> Stranger, rank_delta |-> 7, heroes |-> <<"Scarlet Witch">>]

NoNameField == [is_same_team |-> TRUE, rank_delta |-> 7, heroes |-> <<"Rocket Raccoon">>]

NoHeroesField == [name |-> Stranger, is_same_team |-> FALSE]

MatchupDetails ==
    {<<OwnWin, o>> : o \in {FriendMate, StrangerMate, Opponent, FriendOpponent,
                            NoTeamField, NoNameField, NoHeroesField}}
    \cup {<<OwnLoss, Opponent>>, <<OwnLoss, FriendMate>>,
          <<OwnNoDelta, Opponent>>,
          <<OwnOtherHero, Opponent>>, <<OwnOtherHero, FriendMate>>,
          <<Opponent, OwnLoss, StrangerMate>>,
          <<Opponent>>}

MatchupMatchData == {[match_details |-> d] : d \in MatchupDetails}

\* The rank_delta values a record of another player is given in a second call.
OtherDeltas == {1, 7}

\* The places (match, record) of the records of other players.
OtherPlaces(ms, player) ==
    {<<i, j>> \in (DOMAIN ms) \X (1..3) :
        /\ j \in DOMAIN DetailsOf(ms[i].match_data)
        /\ ~GetEquals(DetailsOf(ms[i].match_data)[j], "name", player)}

\* The record with its rank_delta set to x.
WithRankDelta(pd, x) ==
    [k \in DOMAIN pd \cup {"rank_delta"} |-> IF k = "rank_delta" THEN x ELSE pd[k]]

\* The mapping ms with the rank_delta of the record at every place of deltas replaced.
WithOtherDeltas(ms, deltas) ==
    [i \in DOMAIN ms |->
        [match_id |-> ms[i].match_id,
         match_data |->
            [f \in DOMAIN ms[i].match_data |->
                IF f = "match_details"
                THEN [j \in DOMAIN ms[i].match_data.match_details |->
                         IF <<i, j>> \in DOMAIN deltas
                         THEN WithRankDelta(ms[i].match_data.match_details[j], deltas[<<i, j>>])
                         ELSE ms[i].match_data.match_details[j]]
                ELSE ms[i].match_data[f]]]]

InitMatchup ==
    /\ matches \in {AsMapping(ds) : ds \in SeqUpTo(MatchupMatchData, MaxMatchupMatches)}
    /\ player_ign = "glacial_spark"
    /\ character = "Namor"
    /\ target_teammates \in BOOLEAN
    /\ filter_teammates_to_friends \in BOOLEAN
    /\ matchups_avg = <<>>
    /\ matchups_total = <<>>
    /\ pc = "matchups"
    /\ raised = "none"
    /\ NoExtRun
    /\ NoFilterRun
    /\ NoHeroRun
    /\ NoDayRun

\* get_matchups(filtered_matches, player_ign, character, target_teammates, filter_teammates_to_friends)
CallGetMatchups ==
    /\ pc = "matchups"
    /\ matchups_avg' = get_matchups(matches, player_ign, character, target_teammates,
                                    filter_teammates_to_friends)
    /\ pc' = "total_matchups"
    /\ UNCHANGED extVars
    /\ UNCHANGED <<matches, player_ign, only_friend_games, character, target_teammates,
                   filter_teammates_to_friends, raised, filtered_player_matches, hero_stats,
                   overall_pm, avg_pm, matchups_total, total_perf_by_day, avg_perf_by_day>>

\* get_total_matchups(filtered_matches, player_ign, character, target_teammates, filter_teammates_to_friends)
CallGetTotalMatchups ==
    /\ pc = "total_matchups"
    /\ matchups_total' = get_total_matchups(matches, player_ign, character, target_teammates,
                                            filter_teammates_to_friends)
    /\ pc' = "done"
    /\ UNCHANGED extVars
    /\ UNCHANGED <<matches, player_ign, only_friend_games, character, target_teammates,
                   filter_teammates_to_friends, raised, filtered_player_matches, hero_stats,
                   overall_pm, avg_pm, matchups_avg, total_perf_by_day, avg_perf_by_day>>

\* Both functions called again, with the same arguments, on a mapping that differs from
\* matches only in the rank_delta of records of other players; matches stays the
\* mapping of the first calls.
CallMatchupsOnOtherDeltas ==
    /\ pc = "done"
    /\ \E deltas \in [OtherPlaces(matches, player_ign) -> OtherDeltas] :
          LET variant == WithOtherDeltas(matches, deltas)
          IN  /\ matchups_avg' = get_matchups(variant, player_ign, character,
                                              target_teammates, filter_teammates_to_friends)
              /\ matchups_total' = get_total_matchups(variant, player_ign, character,
                                                      target_teammates,
                                                      filter_teammates_to_friends)
    /\ pc' = "again"
    /\ UNCHANGED extVars
    /\ UNCHANGED <<matches, player_ign, only_friend_games, character, target_teammates,
                   filter_teammates_to_friends, raised, filtered_player_matches, hero_stats,
                   overall_pm, avg_pm, total_perf_by_day, avg_perf_by_day>>

NextMatchup == CallGetMatchups \/ CallGetTotalMatchups \/ CallMatchupsOnOtherDeltas

SpecMatchup == InitMatchup /\ [][NextMatchup]_vars

(***************************************************************************)
(* Claims on the matchup aggregation                                       *)
(***************************************************************************)
\* The fixture of the claim: Namor with a Rocket Raccoon teammate at +10, Namor against
\* a Scarlet Witch at -5.
MatchupFixture ==
    AsMapping(<<[match_details |-> <<OwnWin, FriendMate>>],
                [match_details |-> <<OwnLoss, Opponent>>]>>)

\* C5: the matchup results do not depend on the rank_delta of the records of other
\* players: a second call on a mapping that differs only there returns the results of
\* the first; and on the fixture get_matchups returns {Rocket Raccoon: 10.0} for the
\* teammates and {Scarlet Witch: -5.0} for the opponents.
C5_ViewersDeltaOnly ==
    /\ [][pc' = "again" =>
             (matchups_avg' = matchups_avg /\ matchups_total' = matchups_total)]_vars
    /\ []((pc \in {"total_matchups", "done"} /\ matches = MatchupFixture) =>
             IF target_teammates
             THEN matchups_avg = <<<<"Rocket Raccoon", Float(10)>>>>
             ELSE matchups_avg = <<<<"Scarlet Witch", Float(-5)>>>>)

\* C5 witness: the second call has been made on the fixture, whose records of other
\* players carry a rank_delta that is not the viewed player's.
C5_Witness ==
    /\ pc = "again"
    /\ matches = MatchupFixture
    /\ target_teammates
    /\ matchups_total = <<<<"Rocket Raccoon", 10>>>>

\* The viewed player's record of a match: the first one with the player's name.
OwnIndex(details, player) ==
    CHOOSE j \in DOMAIN details :
        /\ GetEquals(details[j], "name", player)
        /\ \A l \in 1..(j - 1) : ~GetEquals(details[l], "name", player)

PlayedIn(match_data, player, char) ==
    /\ \E j \in DOMAIN DetailsOf(match_data) : GetEquals(DetailsOf(match_data)[j], "name", player)
    /\ char \in Range(Get(DetailsOf(match_data)[OwnIndex(DetailsOf(match_data), player)],
                          "heroes", <<>>))

\* The places (match, record, position) that count for target hero h: the match is one
\* where the viewed player played char, the record is another player's, on the asked
\* side, a friend's when teammates and friends_only, and lists h. With missing_is_false
\* a record without is_same_team is on the opponents' side.
MatchupPlaces(ms, player, char, teammates, friends_only, missing_is_false, h) ==
    {<<i, j, k>> \in (DOMAIN ms) \X (1..3) \X (1..2) :
        /\ PlayedIn(ms[i].match_data, player, char)
        /\ j \in DOMAIN DetailsOf(ms[i].match_data)
        /\ LET pd == DetailsOf(ms[i].match_data)[j]
           IN  /\ ~("name" \in DOMAIN pd /\ pd.name = player)
               /\ IF "is_same_team" \in DOMAIN pd
                  THEN pd.is_same_team = teammates
                  ELSE missing_is_false /\ ~teammates
               /\ (teammates /\ friends_only) => ("name" \in DOMAIN pd /\ pd.name \in FRIENDS)
               /\ k \in DOMAIN Get(pd, "heroes", <<>>)
               /\ pd.heroes[k] = h}

\* The viewed player's rank_delta in the match of a place, 0 when the record has none.
OwnDeltaAt(ms, player, place) ==
    Get(DetailsOf(ms[place[1]].match_data)[OwnIndex(DetailsOf(ms[place[1]].match_data), player)],
        "rank_delta", 0)

RECURSIVE SumOwnDeltas(_, _, _)
SumOwnDeltas(ms, player, places) ==
    IF places = {}
    THEN 0
    ELSE LET place == CHOOSE x \in places : TRUE
         IN  OwnDeltaAt(ms, player, place) + SumOwnDeltas(ms, player, places \ {place})

\* The places that count for h in the run's calls.
RunPlaces(missing_is_false, h) ==
    MatchupPlaces(matches, player_ign, character, target_teammates,
                  filter_teammates_to_friends, missing_is_false, h)

\* The results are those of the places that count.
MatchupResultsAre(missing_is_false) ==
    /\ Keys(matchups_total) = {h \in TargetHeroNames : RunPlaces(missing_is_false, h) # {}}
    /\ Keys(matchups_avg) = Keys(matchups_total)
    /\ \A h \in Keys(matchups_total) :
          /\ At(matchups_total, h) = SumOwnDeltas(matches, player_ign, RunPlaces(missing_is_false, h))
          /\ At(matchups_avg, h).num * Cardinality(RunPlaces(missing_is_false, h))
                 = At(matchups_total, h) * At(matchups_avg, h).den

\* C6: the records that count in the matchup aggregation are exactly, in the matches
\* where the viewed player's record lists the character, the records of other players
\* whose is_same_team equals target_teammates, narrowed to FRIENDS only when
\* target_teammates and filter_teammates_to_friends are both true; a match where the
\* player did not play the character counts for nothing, and the friends flag does not
\* change the opponent result.
C6_ContributingRecords ==
    pc = "done" => MatchupResultsAre(FALSE)

\* C6 witness: with both flags true, over a match with a friend teammate and a match
\* with a stranger teammate, the friend's hero alone is counted.
C6_Witness ==
    /\ pc = "done" /\ target_teammates /\ filter_teammates_to_friends
    /\ \E i \in DOMAIN matches : matches[i].match_data.match_details = <<OwnWin, StrangerMate>>
    /\ \E i \in DOMAIN matches : matches[i].match_data.match_details = <<OwnLoss, FriendMate>>
    /\ matchups_total = <<<<"Rocket Raccoon", -5>>>>

\* C7: get_matchups and get_total_matchups return the same target heroes, a hero of a
\* single game included, and every average is the total divided by the number of
\* (target record, hero) occurrences of the hero.
C7_AverageIsTotalOverCount ==
    pc = "done" =>
        /\ Keys(matchups_avg) = Keys(matchups_total)
        /\ Len(matchups_avg) = Len(matchups_total)
        /\ \A h \in TargetHeroNames : Cardinality(RunPlaces(FALSE, h)) = 1 => HasKey(matchups_avg, h)
        /\ \A h \in Keys(matchups_total) :
              At(matchups_avg, h) = TrueDiv(At(matchups_total, h), Cardinality(RunPlaces(FALSE, h)))

\* C7 witness: a hero of one game is in both results, and a hero of two games has an
\* average that is half its total.
C7_Witness ==
    /\ pc = "done"
    /\ \E h \in Keys(matchups_avg) : Cardinality(RunPlaces(FALSE, h)) = 1
    /\ \E h \in Keys(matchups_total) :
          /\ Cardinality(RunPlaces(FALSE, h)) = 2
          /\ At(matchups_total, h) = 5
          /\ At(matchups_avg, h) = [num |-> 5, den |-> 2]

\* C8: a missing rank_delta, heroes or is_same_team is read as 0, no hero, false: the
\* matchup results are those of the input with the missing fields filled in, so that a
\* record of another player without is_same_team counts among the opponents.
C8_MissingFieldsNeutral ==
    pc = "done" => MatchupResultsAre(TRUE)

(***************************************************************************)
(* Inputs of the day-of-week aggregation                                   *)
(***************************************************************************)
\* The longest match mapping handed to the day-of-week aggregation.
MaxDayMatches == 2

\* Monday 03:00 UTC (Sunday evening in the PST zone), Monday 12:00 UTC, Wednesday 20:00
\* at -08:00, Sunday 02:00 at +09:00 (Saturday in the PST zone), a string that does not
\* parse, the empty string.
DayTimestamps ==
    {Timestamp(7, 3, 0), Timestamp(7, 12, 0), Timestamp(9, 20, -8), Timestamp(13, 2, 9),
     GarbageTimestamp, EmptyTimestamp}

\* match_details with the player's record alone (two heroes, or no rank_delta), twice,
\* after another player's record, with no record of the player; or no match_details.
DayDetailParts ==
    {EmptyDict,
     [match_details |-> <<[name |-> "glacial_spark", is_same_team |-> TRUE, rank_delta |-> 10,
                           heroes |-> <<"Namor", "Doctor Strange">>]>>],
     [match_details |-> <<[name |-> "glacial_spark", is_same_team |-> TRUE,
                           heroes |-> <<"Namor">>]>>],
     [match_details |-> <<[name |-> "glacial_spark", is_same_team |-> TRUE, rank_delta |-> -4,
                           heroes |-> <<"Namor">>],
                          [name |-> "glacial_spark", is_same_team |-> TRUE, rank_delta |-> 9,
                           heroes |-> <<"Doctor Strange">>]>>],
     [match_details |-> <<[name |-> Stranger, is_same_team |-> FALSE, rank_delta |-> 7,
                           heroes |-> <<"Namor">>],
                          [name |-> "glacial_spark", is_same_team |-> TRUE, rank_delta |-> -4,
                           heroes |-> <<"Namor">>]>>],
     [match_details |-> <<[name |-> Stranger, is_same_team |-> FALSE, rank_delta |-> 7,
                           heroes |-> <<"Namor">>]>>]}

DayMatchData ==
    {d @@ t : d \in DayDetailParts,
              t \in {EmptyDict} \cup {[match_timestamp |-> ts] : ts \in DayTimestamps}}

InitDay ==
    /\ matches \in {AsMapping(ds) : ds \in SeqUpTo(DayMatchData, MaxDayMatches)}
    /\ player_ign = "glacial_spark"
    /\ total_perf_by_day = <<>>
    /\ avg_perf_by_day = <<>>
    /\ pc = "by_day"
    /\ raised = "none"
    /\ NoExtRun
    /\ NoFilterRun
    /\ NoHeroRun
    /\ NoMatchupRun

\* total_perf_by_day, avg_perf_by_day = get_performance_by_day_of_week(...)
CallGetPerformanceByDayOfWeek ==
    /\ pc = "by_day"
    /\ LET r == get_performance_by_day_of_week(matches, player_ign)
       IN  /\ total_perf_by_day' = r.total
           /\ avg_perf_by_day' = r.average
    /\ pc' = "done"
    /\ UNCHANGED extVars
    /\ UNCHANGED <<matches, player_ign, only_friend_games, character, target_teammates,
                   filter_teammates_to_friends, raised, filtered_player_matches, hero_stats,
                   overall_pm, avg_pm, matchups_avg, matchups_total>>

NextDay == CallGetPerformanceByDayOfWeek

SpecDay == InitDay /\ [][NextDay]_vars

(***************************************************************************)
(* Claims on the day-of-week aggregation                                   *)
(***************************************************************************)
\* The matches counted on a day: those with a timestamp that parses, on that day in the
\* PST zone, and a record of the player.
CountedOn(ms, player, day) ==
    {i \in DOMAIN ms :
        /\ "match_timestamp" \in DOMAIN ms[i].match_data
        /\ ms[i].match_data.match_timestamp.kind = "iso"
        /\ DayName(convert_datetime(ms[i].match_data.match_timestamp)) = day
        /\ \E pd \in Range(DetailsOf(ms[i].match_data)) : GetEquals(pd, "name", player)}

\* C10: whatever the input, the empty mapping and mappings with no record of the player
\* included, both results of get_performance_by_day_of_week have exactly the seven keys
\* Monday to Sunday, in that order, and a day with no counted game has the value 0 in
\* the totals and 0.0 in the averages.
C10_SevenDaysAlways ==
    pc = "done" =>
        /\ [i \in DOMAIN total_perf_by_day |-> total_perf_by_day[i][1]] = days_order
        /\ [i \in DOMAIN avg_perf_by_day |-> avg_perf_by_day[i][1]] = days_order
        /\ \A i \in DOMAIN days_order :
              CountedOn(matches, player_ign, days_order[i]) = {} =>
                  /\ total_perf_by_day[i][2] = 0
                  /\ avg_perf_by_day[i][2] = Float(0)

\* C10 witness: a run over a mapping whose only counted game falls on Sunday in the PST
\* zone: Sunday has its total, Monday is there with 0 and 0.0.
C10_Witness ==
    /\ pc = "done"
    /\ CountedOn(matches, player_ign, "Sunday") # {}
    /\ \A i \in 1..6 : CountedOn(matches, player_ign, days_order[i]) = {}
    /\ total_perf_by_day[7] = <<"Sunday", 10>>
    /\ total_perf_by_day[1] = <<"Monday", 0>>
    /\ avg_perf_by_day[1] = <<"Monday", Float(0)>>

\* C11: a match with a timestamp that parses and at least one record of the player counts
\* on exactly one day, once: the day's total is the sum of the rank_delta (0 when missing)
\* of the first record of the player over the matches counted on that day, whatever the
\* number of heroes of the record and of records of the player, and the day's average is
\* that total divided by the number of these matches.
C11_OncePerMatchOnOneDay ==
    pc = "done" =>
        /\ \A i \in DOMAIN matches :
              Cardinality({d \in Range(days_order) : i \in CountedOn(matches, player_ign, d)}) <= 1
        /\ \A i \in DOMAIN days_order :
              LET counted == CountedOn(matches, player_ign, days_order[i])
                  total == SumOwnDeltas(matches, player_ign, {<<m>> : m \in counted})
              IN  /\ total_perf_by_day[i][2] = total
                  /\ counted # {} => avg_perf_by_day[i][2] = TrueDiv(total, Cardinality(counted))

\* C11 witness: two matches counted on the same day, one with two records of the player
\* (-4, then 9), one with one record of two heroes (10): the day has 6 over 2 games.
C11_Witness ==
    /\ pc = "done"
    /\ Len(matches) = 2
    /\ CountedOn(matches, player_ign, "Monday") = {1, 2}
    /\ Len(current_player_list(DetailsOf(matches[1].match_data), player_ign)) = 2
    /\ Len(Get(DetailsOf(matches[2].match_data)[1], "heroes", <<>>)) = 2
    /\ total_perf_by_day[1] = <<"Monday", 6>>
    /\ avg_perf_by_day[1] = <<"Monday", Float(3)>>

(***************************************************************************)
(* Matches with and without a timestamp, through every aggregation         *)
(***************************************************************************)
\* The longest match mapping handed to the aggregations one after the other.
MaxStampMatches == 2

\* No timestamp, one that does not parse, Monday 12:00 UTC, Wednesday 20:00 at -08:00.
StampParts ==
    {EmptyDict, [match_timestamp |-> GarbageTimestamp],
     [match_timestamp |-> Timestamp(7, 12, 0)], [match_timestamp |-> Timestamp(9, 20, -8)]}

StampDetails == {<<OwnWin, Opponent>>, <<OwnLoss, FriendMate>>, <<Opponent>>}

StampMaps == {"Krakoa", "Midtown"}

StampMatchData ==
    {[match_details |-> d, map |-> m] @@ t :
        d \in StampDetails, m \in StampMaps, t \in StampParts}

InitStamp ==
    /\ matches \in {AsMapping(ds) : ds \in SeqUpTo(StampMatchData, MaxStampMatches)}
    /\ player_ign = "glacial_spark"
    /\ character = "Namor"
    /\ target_teammates \in BOOLEAN
    /\ filter_teammates_to_friends = FALSE
    /\ matchups_avg = <<>>
    /\ matchups_total = <<>>
    /\ pc = "stamp_day"
    /\ raised = "none"
    /\ NoFilterRun
    /\ NoHeroRun
    /\ NoDayRun
    /\ NoExtRun

\* total_perf_by_day, avg_perf_by_day = get_performance_by_day_of_week(...)
StampCallDay ==
    /\ pc = "stamp_day"
    /\ LET r == get_performance_by_day_of_week(matches, player_ign)
       IN  /\ total_perf_by_day' = r.total
           /\ avg_perf_by_day' = r.average
    /\ pc' = "stamp_heroes"
    /\ UNCHANGED <<inputVars, filterVars, heroVars, matchupArgs, matchupVars, extVars, raised>>

\* overall_pm = get_overall_plus_minus(...); avg_pm = get_average_plus_minus(...)
StampCallHeroes ==
    /\ pc = "stamp_heroes"
    /\ hero_stats' = average_hero_stats(matches, player_ign)
    /\ overall_pm' = get_overall_plus_minus(matches, player_ign)
    /\ avg_pm' = get_average_plus_minus(matches, player_ign)
    /\ pc' = "stamp_matchups"
    /\ UNCHANGED <<inputVars, filterVars, dayVars, matchupArgs, matchupVars, extVars, raised>>

\* get_matchups(...) and get_total_matchups(...) for the character
StampCallMatchups ==
    /\ pc = "stamp_matchups"
    /\ matchups_avg' = get_matchups(matches, player_ign, character, target_teammates,
                                    filter_teammates_to_friends)
    /\ matchups_total' = get_total_matchups(matches, player_ign, character, target_teammates,
                                            filter_teammates_to_friends)
    /\ pc' = "stamp_maps"
    /\ UNCHANGED <<inputVars, filterVars, dayVars, heroVars, matchupArgs, extVars, raised>>

\* get_map_performance_for_hero(...) and get_map_type_performance_for_hero(...) for the
\* character
StampCallMaps ==
    /\ pc = "stamp_maps"
    /\ LET by_map == get_map_performance_for_hero(matches, player_ign, character)
           by_type == get_map_type_performance_for_hero(matches, player_ign, character)
       IN  /\ map_data' = by_map.map_data
           /\ map_games' = by_map.map_games
           /\ raised' = by_type.raised
           /\ IF by_type.raised = "none"
              THEN /\ map_type_data' = by_type.value.map_data
                   /\ map_type_games' = by_type.value.map_games
              ELSE UNCHANGED <<map_type_data, map_type_games>>
    /\ pc' = "done"
    /\ UNCHANGED <<inputVars, filterVars, dayVars, heroVars, matchupArgs, matchupVars,
                   latestVars, uiVars>>

NextStamp == StampCallDay \/ StampCallHeroes \/ StampCallMatchups \/ StampCallMaps

SpecStamp == InitStamp /\ [][NextStamp]_vars

\* The timestamp of a match parses.
Parses(match_data) ==
    "match_timestamp" \in DOMAIN match_data /\ match_data.match_timestamp.kind = "iso"

\* The mapping with every timestamp that is absent or does not parse replaced by one
\* that parses.
WithValidTimestamps(ms) ==
    [i \in DOMAIN ms |->
        [match_id |-> ms[i].match_id,
         match_data |->
            [k \in DOMAIN ms[i].match_data \cup {"match_timestamp"} |->
                IF k = "match_timestamp"
                THEN IF Parses(ms[i].match_data)
                     THEN ms[i].match_data.match_timestamp
                     ELSE Timestamp(7, 12, 0)
                ELSE ms[i].match_data[k]]]]

\* C12: a match whose timestamp is absent or does not parse raises nothing and counts on
\* no day (each day's total is the sum over the matches whose timestamp parses), and the
\* hero, matchup and map aggregations give what they give on the same mapping with these
\* timestamps replaced by valid ones.
C12_TimestampOnlyMattersForDays ==
    pc = "done" =>
        /\ raised = "none"
        /\ \A i \in DOMAIN days_order :
              total_perf_by_day[i][2]
                  = SumOwnDeltas(matches, player_ign,
                                 {<<m>> : m \in CountedOn(matches, player_ign, days_order[i])})
        /\ \A i \in DOMAIN matches, d \in Range(days_order) :
              i \in CountedOn(matches, player_ign, d) => Parses(matches[i].match_data)
        /\ LET valid == WithValidTimestamps(matches)
           IN  /\ hero_stats = average_hero_stats(valid, player_ign)
               /\ overall_pm = get_overall_plus_minus(valid, player_ign)
               /\ avg_pm = get_average_plus_minus(valid, player_ign)
               /\ matchups_avg = get_matchups(valid, player_ign, character, target_teammates,
                                              filter_teammates_to_friends)
               /\ matchups_total = get_total_matchups(valid, player_ign, character,
                                                      target_teammates,
                                                      filter_teammates_to_friends)
               /\ map_data = get_map_performance_for_hero(valid, player_ign, character).map_data
               /\ map_games = get_map_performance_for_hero(valid, player_ign, character).map_games
               /\ map_type_data
                      = get_map_type_performance_for_hero(valid, player_ign, character).value.map_data
               /\ map_type_games
                      = get_map_type_performance_for_hero(valid, player_ign, character).value.map_games

\* C12 witness: two matches of the player on Namor, one without timestamp and one whose
\* timestamp does not parse: every day has 0, the hero, the opponents' matchups and the
\* maps have both games.
C12_Witness ==
    /\ pc = "done"
    /\ Len(matches) = 2
    /\ "match_timestamp" \notin DOMAIN matches[1].match_data
    /\ matches[2].match_data.match_details = <<OwnWin, Opponent>>
    /\ "match_timestamp" \in DOMAIN matches[2].match_data
    /\ matches[2].match_data.match_timestamp = GarbageTimestamp
    /\ \A i \in DOMAIN days_order : total_perf_by_day[i][2] = 0
    /\ hero_stats = <<[key |-> "Namor", total_plus_minus |-> 20, num_games |-> 2]>>
    /\ matchups_total = <<<<"Scarlet Witch", 20>>>>
    /\ map_games = <<<<"Krakoa", 2>>>>
    /\ map_type_games = <<<<"Domination", 2>>>>

(***************************************************************************)
(* get_latest_games on timestamps of every kind                            *)
(***************************************************************************)
\* The longest match mapping handed to get_latest_games.
MaxLatestMatches == 3

\* No timestamp, "", a string that does not parse, and three that parse: Monday 12:00
\* UTC, the same instant written at -08:00, Wednesday 20:00 at -08:00.
LatestParts ==
    {EmptyDict, [match_timestamp |-> EmptyTimestamp], [match_timestamp |-> GarbageTimestamp],
     [match_timestamp |-> Timestamp(7, 12, 0)], [match_timestamp |-> Timestamp(7, 4, -8)],
     [match_timestamp |-> Timestamp(9, 20, -8)]}

\* A match has a map and a field that is not among relevant_data_keys.
LatestMatchData == {[map |-> "Krakoa", replay_id |-> "r"] @@ t : t \in LatestParts}

NumGames == {1, 2}

InitLatest ==
    /\ matches \in {AsMapping(ds) : ds \in SeqUpTo(LatestMatchData, MaxLatestMatches)}
    /\ num_games \in NumGames
    /\ latest_games = <<>>
    /\ player_ign = "glacial_spark"
    /\ pc = "latest"
    /\ raised = "none"
    /\ NoFilterRun
    /\ NoHeroRun
    /\ NoMatchupRun
    /\ NoDayRun
    /\ NoMapRun
    /\ NoUiRun

\* get_latest_games(filtered_matches, num_games)
CallGetLatestGames ==
    /\ pc = "latest"
    /\ LET r == get_latest_games(matches, num_games)
       IN  /\ raised' = r.raised
           /\ latest_games' = r.value
    /\ pc' = "done"
    /\ UNCHANGED <<inputVars, filterVars, dayVars, heroVars, matchupArgs, matchupVars, mapVars,
                   num_games, uiVars>>

NextLatest == CallGetLatestGames

SpecLatest == InitLatest /\ [][NextLatest]_vars

\* C13: get_latest_games treats a timestamp that does not parse as an absent one: for
\* every input it returns without error at most num_games matches, newest first, a match
\* whose timestamp does not parse ordered as the oldest and returned without the display
\* timestamp.
C13_LatestGamesTolerant ==
    pc = "done" =>
        /\ raised = "none"
        /\ Len(latest_games) = IF num_games < Len(matches) THEN num_games ELSE Len(matches)
        /\ \A i, j \in DOMAIN latest_games :
              i < j => LatestKey(latest_games[i]) >= LatestKey(latest_games[j])
        /\ \A i \in DOMAIN latest_games :
              ~Parses(latest_games[i]) => "match_timestamp_pst" \notin DOMAIN latest_games[i]

(***************************************************************************)
(* Inputs of the map aggregations                                          *)
(***************************************************************************)
\* The longest match mapping handed to the map aggregations.
MaxMapMatches == 2

\* The player on Namor (winning, losing, without rank_delta), no record of the player,
\* two records of the player of which the first does not list Namor.
MapDetails == {<<OwnWin>>, <<OwnLoss>>, <<OwnNoDelta>>, <<Opponent>>, <<OwnOtherHero, OwnWin>>}

\* Two Domination maps, a Convoy map, a map that MAP_NAME_TO_MAP_TYPE does not have, no
\* map field.
MapParts ==
    {[map |-> "Krakoa"], [map |-> "Hell's Heaven"], [map |-> "Midtown"], [map |-> "Klyntar"],
     EmptyDict}

MapMatchData == {[match_details |-> d] @@ m : d \in MapDetails, m \in MapParts}

InitMap ==
    /\ matches \in {AsMapping(ds) : ds \in SeqUpTo(MapMatchData, MaxMapMatches)}
    /\ player_ign = "glacial_spark"
    /\ character = "Namor"
    /\ target_teammates = FALSE
    /\ filter_teammates_to_friends = FALSE
    /\ matchups_avg = <<>>
    /\ matchups_total = <<>>
    /\ pc = "map"
    /\ raised = "none"
    /\ NoFilterRun
    /\ NoHeroRun
    /\ NoDayRun
    /\ NoExtRun

\* map_data, map_games = get_map_performance_for_hero(...)
CallGetMapPerformanceForHero ==
    /\ pc = "map"
    /\ LET r == get_map_performance_for_hero(matches, player_ign, character)
       IN  /\ map_data' = r.map_data
           /\ map_games' = r.map_games
    /\ pc' = "map_type"
    /\ UNCHANGED <<inputVars, filterVars, dayVars, heroVars, matchupArgs, matchupVars,
                   map_type_data, map_type_games, latestVars, uiVars, raised>>

\* map_type_data, map_type_games = get_map_type_performance_for_hero(...)
CallGetMapTypePerformanceForHero ==
    /\ pc = "map_type"
    /\ LET r == get_map_type_performance_for_hero(matches, player_ign, character)
       IN  /\ raised' = r.raised
           /\ IF r.raised = "none"
              THEN /\ map_type_data' = r.value.map_data
                   /\ map_type_games' = r.value.map_games
              ELSE UNCHANGED <<map_type_data, map_type_games>>
    /\ pc' = "done"
    /\ UNCHANGED <<inputVars, filterVars, dayVars, heroVars, matchupArgs, matchupVars,
                   map_data, map_games, latestVars, uiVars>>

NextMap == CallGetMapPerformanceForHero \/ CallGetMapTypePerformanceForHero

SpecMap == InitMap /\ [][NextMap]_vars

(***************************************************************************)
(* Claims on the map aggregations                                          *)
(***************************************************************************)
MapTypes == {"Convoy", "Domination", "Convergence"}

\* The map names of the inputs, with the name given to a match without map.
MapNames == {"Krakoa", "Hell's Heaven", "Midtown", "Klyntar", "Unknown"}

\* The map name of a match is in the table.
Mapped(match_data) ==
    "map" \in DOMAIN match_data /\ HasKey(MAP_NAME_TO_MAP_TYPE, match_data.map)

\* The matches that count for a key: the first record of the player lists the character
\* and the match is on that map, or on a map of that type.
MapPlaces(ms, player, char, by_type, key) ==
    {<<i>> : i \in {m \in DOMAIN ms :
        /\ PlayedIn(ms[m].match_data, player, char)
        /\ IF by_type
           THEN Mapped(ms[m].match_data)
                /\ At(MAP_NAME_TO_MAP_TYPE, ms[m].match_data.map) = key
           ELSE Get(ms[m].match_data, "map", "Unknown") = key}}

\* data and games have the same keys, the keys with a match that counts, each once; a
\* count is the number of these matches and a total the sum of the player's rank_delta.
ParallelMappings(data, games, by_type) ==
    /\ Keys(data) = Keys(games)
    /\ Keys(games) = {k \in MapNames \cup MapTypes :
                         MapPlaces(matches, player_ign, character, by_type, k) # {}}
    /\ Len(data) = Cardinality(Keys(data))
    /\ Len(games) = Cardinality(Keys(games))
    /\ \A k \in Keys(games) :
          /\ At(games, k) >= 1
          /\ At(games, k) = Cardinality(MapPlaces(matches, player_ign, character, by_type, k))
          /\ At(data, k) = SumOwnDeltas(matches, player_ign,
                                        MapPlaces(matches, player_ign, character, by_type, k))

\* C14: get_map_performance_for_hero and get_map_type_performance_for_hero return two
\* mappings with the same keys; the count of a key is at least 1 and is the number of
\* matches where the player's record lists the hero on that map (map type), the total is
\* the sum of the player's rank_delta over these matches.
C14_ParallelTotalsAndCounts ==
    /\ pc \in {"map_type", "done"} => ParallelMappings(map_data, map_games, FALSE)
    /\ (pc = "done" /\ raised = "none") => ParallelMappings(map_type_data, map_type_games, TRUE)

\* C14 witness: a win and a loss on two Domination maps, in matches that both list the
\* hero: one key per map, one key for the type with both games.
C14_Witness ==
    /\ pc = "done"
    /\ raised = "none"
    /\ map_data = <<<<"Krakoa", 10>>, <<"Hell's Heaven", -5>>>>
    /\ map_games = <<<<"Krakoa", 1>>, <<"Hell's Heaven", 1>>>>
    /\ map_type_data = <<<<"Domination", 5>>>>
    /\ map_type_games = <<<<"Domination", 2>>>>

\* The sum of the values of d over a set of its keys.
RECURSIVE SumAt(_, _)
SumAt(d, keys) ==
    IF keys = {}
    THEN 0
    ELSE LET k == CHOOSE x \in keys : TRUE
         IN  At(d, k) + SumAt(d, keys \ {k})

\* The keys of the per-map result whose map is of type t.
NamesOfType(d, t) ==
    {n \in Keys(d) : HasKey(MAP_NAME_TO_MAP_TYPE, n) /\ At(MAP_NAME_TO_MAP_TYPE, n) = t}

\* C15: get_map_type_performance_for_hero ends with a KeyError and no result, partial or
\* under a fallback key, when a match of its input has a map name that is not in
\* MAP_NAME_TO_MAP_TYPE (or no map); when every map name is in the table it returns, and
\* its totals and counts are those of get_map_performance_for_hero regrouped by the table.
C15_MapTypeFailsOrRegroups ==
    pc = "done" =>
        /\ raised = "KeyError" <=> \E i \in DOMAIN matches : ~Mapped(matches[i].match_data)
        /\ raised # "KeyError" => raised = "none"
        /\ raised = "KeyError" => (map_type_data = <<>> /\ map_type_games = <<>>)
        /\ raised = "none" =>
              /\ Keys(map_type_games) = {t \in MapTypes : NamesOfType(map_games, t) # {}}
              /\ Keys(map_type_data) = Keys(map_type_games)
              /\ \A t \in Keys(map_type_games) :
                    /\ At(map_type_games, t) = SumAt(map_games, NamesOfType(map_games, t))
                    /\ At(map_type_data, t) = SumAt(map_data, NamesOfType(map_data, t))

\* C15 witness: the hero played on a map of the table, then on one that is not: the
\* per-map result has both maps, the per-type call ends with KeyError and gives nothing.
C15_Witness ==
    /\ pc = "done"
    /\ raised = "KeyError"
    /\ map_games = <<<<"Krakoa", 1>>, <<"Klyntar", 1>>>>
    /\ map_type_data = <<>>
    /\ map_type_games = <<>>

(***************************************************************************)
(* Inputs of the chart builders                                            *)
(***************************************************************************)
\* The largest number of categories of a mapping handed to a chart builder.
MaxChartItems == 3

ChartCategories == {"Namor", "Doctor Strange", "Rocket Raccoon", "Scarlet Witch"}

IntValues == {-5, 0, 10}

FloatValues == {Float(-5), Float(0), TrueDiv(5, 2)}

\* The mappings of at most MaxChartItems categories, in every order, to values of V.
ChartMappings(V) ==
    {m \in SeqUpTo(ChartCategories \X V, MaxChartItems) :
        \A i, j \in DOMAIN m : i # j => m[i][1] # m[j][1]}

\* A day-of-week mapping: the seven days in order, three of them with any value of V.
DayMappings(V, zero) ==
    {[i \in DOMAIN days_order |->
        <<days_order[i], IF i = 1 THEN a ELSE IF i = 2 THEN b ELSE IF i = 7 THEN c ELSE zero>>] :
        a \in V, b \in V, c \in V}

\* map_games for map_data: no key, every map with 1 game, the i-th map with i games.
GamesFor(data) ==
    {<<>>, [i \in DOMAIN data |-> <<data[i][1], 1>>], [i \in DOMAIN data |-> <<data[i][1], i>>]}

FloatBuilders == {"create_hero_average_chart", "create_matchup_chart"}

IntBuilders == {"create_hero_total_chart", "create_total_matchup_chart"}

MapBuilders == {"create_map_performance_chart", "create_map_type_performance_chart"}

DayBuilder == "create_performance_by_day_chart"

InitChart ==
    /\ chart_builder \in FloatBuilders \cup IntBuilders \cup MapBuilders \cup {DayBuilder}
    /\ show_average \in IF chart_builder \in MapBuilders \cup {DayBuilder} THEN BOOLEAN ELSE {FALSE}
    /\ chart_data \in IF chart_builder \in FloatBuilders
                      THEN ChartMappings(FloatValues)
                      ELSE IF chart_builder = DayBuilder
                           THEN {<<>>} \cup IF show_average
                                            THEN DayMappings(FloatValues, Float(0))
                                            ELSE DayMappings(IntValues, 0)
                           ELSE ChartMappings(IntValues)
    /\ chart_games \in IF chart_builder \in MapBuilders THEN GamesFor(chart_data) ELSE {<<>>}
    /\ chart = NoChart
    /\ matches = <<>>
    /\ player_ign = "glacial_spark"
    /\ pc = "chart"
    /\ raised = "none"
    /\ NoFilterRun
    /\ NoHeroRun
    /\ NoMatchupRun
    /\ NoDayRun
    /\ NoMapRun
    /\ NoLatestRun
    /\ NoLoadRun
    /\ NoPageRun

\* What a call of a chart builder leaves as it is.
ChartFrame ==
    /\ pc' = "done"
    /\ UNCHANGED <<aggVars, chart_builder, chart_data, chart_games, show_average, loadVars,
                   pageVars, raised>>

CallCreateHeroAverageChart ==
    /\ pc = "chart"
    /\ chart_builder = "create_hero_average_chart"
    /\ chart' \in create_hero_average_chart(chart_data)
    /\ ChartFrame

CallCreateHeroTotalChart ==
    /\ pc = "chart"
    /\ chart_builder = "create_hero_total_chart"
    /\ chart' \in create_hero_total_chart(chart_data)
    /\ ChartFrame

CallCreateMatchupChart ==
    /\ pc = "chart"
    /\ chart_builder = "create_matchup_chart"
    /\ chart' \in create_matchup_chart(chart_data)
    /\ ChartFrame

CallCreateTotalMatchupChart ==
    /\ pc = "chart"
    /\ chart_builder = "create_total_matchup_chart"
    /\ chart' \in create_total_matchup_chart(chart_data)
    /\ ChartFrame

CallCreateMapPerformanceChart ==
    /\ pc = "chart"
    /\ chart_builder = "create_map_performance_chart"
    /\ chart' \in create_map_performance_chart(chart_data, chart_games, show_average)
    /\ ChartFrame

CallCreateMapTypePerformanceChart ==
    /\ pc = "chart"
    /\ chart_builder = "create_map_type_performance_chart"
    /\ chart' \in create_map_type_performance_chart(chart_data, chart_games, show_average)
    /\ ChartFrame

CallCreatePerformanceByDayChart ==
    /\ pc = "chart"
    /\ chart_builder = DayBuilder
    /\ chart' \in create_performance_by_day_chart(chart_data, show_average)
    /\ ChartFrame

NextChart ==
    \/ CallCreateHeroAverageChart
    \/ CallCreateHeroTotalChart
    \/ CallCreateMatchupChart
    \/ CallCreateTotalMatchupChart
    \/ CallCreateMapPerformanceChart
    \/ CallCreateMapTypePerformanceChart
    \/ CallCreatePerformanceByDayChart

SpecChart == InitChart /\ [][NextChart]_vars

(***************************************************************************)
(* Claims on the chart builders                                            *)
(***************************************************************************)
\* The values of the chart are floats.
ChartIsFloat ==
    \/ chart_builder \in FloatBuilders
    \/ chart_builder \in MapBuilders \cup {DayBuilder} /\ show_average

\* The value the chart shows for a category of its input.
Plotted(k) ==
    IF chart_builder \in MapBuilders /\ show_average
    THEN TrueDiv(At(chart_data, k), IF HasKey(chart_games, k) THEN At(chart_games, k) ELSE 1)
    ELSE At(chart_data, k)

\* No chart exactly for the empty mapping and the all-zero day-of-week mapping; a chart
\* has every category of the input once, with its value.
ChartShowsInput ==
    /\ chart.none <=>
          \/ chart_data = <<>>
          \/ chart_builder = DayBuilder /\ AllZero(chart_data, show_average)
    /\ ~chart.none =>
          /\ Len(chart.x) = Len(chart_data)
          /\ Range(chart.x) = Keys(chart_data)
          /\ DOMAIN chart.y = DOMAIN chart.x
          /\ \A i \in DOMAIN chart.x : chart.y[i] = Plotted(chart.x[i])

\* The categories of the chart are in descending order of the values shown.
ChartDescending ==
    \A i, j \in DOMAIN chart.y :
        i < j => IF ChartIsFloat
                 THEN ~FloatGreater(chart.y[j], chart.y[i])
                 ELSE chart.y[i] >= chart.y[j]

\* C16, as stated: every chart builder returns None for an empty mapping, the
\* day-of-week builder also for a mapping of zeros; in every other case it returns a
\* chart whose categories are in descending order of their values.
C16_AllChartsDescending ==
    pc = "done" =>
        /\ ChartShowsInput
        /\ ~chart.none => ChartDescending

\* C16, amended: every chart builder returns None for an empty mapping, the day-of-week
\* builder also for a mapping of zeros; in every other case it returns a chart; the
\* hero, matchup, map and map-type builders list the categories in descending order of
\* the values shown, the day-of-week builder lists the days in the order of its input
\* mapping (Monday to Sunday), whatever their values.
C16_ChartsDescendingButDays ==
    pc = "done" =>
        /\ ChartShowsInput
        /\ (~chart.none /\ chart_builder # DayBuilder) => ChartDescending
        /\ (~chart.none /\ chart_builder = DayBuilder) =>
              chart.x = [i \in DOMAIN chart_data |-> chart_data[i][1]]

\* C16 witness: a day-of-week chart of totals, Monday to Sunday, where Monday has less
\* than Tuesday.
C16_Witness ==
    /\ pc = "done"
    /\ ~chart.none
    /\ chart_builder = DayBuilder
    /\ ~show_average
    /\ chart.x = days_order
    /\ chart.y[1] < chart.y[2]

(***************************************************************************)
(* The page: data files, loading, runs of the script, user interactions    *)
(***************************************************************************)
\* A friend of a player: another player of IN_GAME_NAMES.
FriendOf(ign) == IF ign = "LunaToeMuncher" THEN "glacial_spark" ELSE "LunaToeMuncher"

\* The record of the file's player, on Namor.
OwnRecord(ign, delta) ==
    [name |-> ign, is_same_team |-> TRUE, rank_delta |-> delta, heroes |-> <<"Namor">>]

MateRecord(ign) ==
    [name |-> FriendOf(ign), is_same_team |-> TRUE, rank_delta |-> 7,
     heroes |-> <<"Rocket Raccoon">>]

\* A match without friend; one with a friend on the team; one with a friend on a map that
\* MAP_NAME_TO_MAP_TYPE does not have; one with a teammate record that has no name.
SoloMatch(ign) ==
    [match_details |-> <<OwnRecord(ign, 10), Opponent>>, map |-> "Krakoa",
     match_timestamp |-> Timestamp(7, 12, 0)]

FriendMatch(ign) ==
    [match_details |-> <<OwnRecord(ign, 3), MateRecord(ign)>>, map |-> "Midtown",
     match_timestamp |-> Timestamp(9, 20, -8)]

NewMapMatch(ign) ==
    [match_details |-> <<OwnRecord(ign, 10), MateRecord(ign)>>, map |-> "Klyntar",
     match_timestamp |-> Timestamp(7, 12, 0)]

NamelessMatch(ign) ==
    [match_details |-> <<OwnRecord(ign, -5), NoNameField>>, map |-> "Midtown",
     match_timestamp |-> Timestamp(7, 12, 0)]

\* The data file of a player: missing, not JSON, or a match mapping: empty, of one match
\* of each kind, or of five matches with a friend (enough for the hero averages).
PageFiles(ign) ==
    {[status |-> "missing"], [status |-> "invalid"]}
    \cup {[status |-> "ok", content |-> AsMapping(ds)] :
            ds \in {<<>>, <<SoloMatch(ign)>>, <<NewMapMatch(ign)>>, <<NamelessMatch(ign)>>,
                    [i \in 1..MinHeroGames |-> FriendMatch(ign)]}}

\* No run has computed anything yet.
NoRunResults ==
    /\ matches = <<>>
    /\ raised = "none"
    /\ filtered_player_matches = <<>>
    /\ NoHeroRun
    /\ NoDayRun
    /\ NoPageRun

InitPage ==
    /\ files \in {<<a, b, c>> : a \in PageFiles(FILE_NAMES[1]), b \in PageFiles(FILE_NAMES[2]),
                                c \in PageFiles(FILE_NAMES[3])}
    /\ cached = FALSE
    /\ all_player_data = <<>>
    /\ available_players = <<>>
    /\ player_ign = "none"
    /\ only_friend_games = FALSE
    /\ pc = "load"
    /\ NoRunResults
    /\ NoMatchupRun
    /\ NoMapRun
    /\ NoLatestRun
    /\ NoChartRun

\* The variables no step of the page and no interaction changes.
pageIdle == <<files, hero_stats, character, target_teammates, matchupVars, mapVars, latestVars,
              chartVars>>

\* The three sidebar widgets.
widgetVars == <<player_ign, only_friend_games, filter_teammates_to_friends>>

\* The results of the steps of a run.
runVars == <<matches, raised, filtered_player_matches, overall_pm, avg_pm, dayVars, pageVars>>

\* all_player_data, available_players = load_all_player_data(), under @st.cache_data: the
\* files are read by the first run only.
PageLoad ==
    /\ pc = "load"
    /\ IF cached
       THEN UNCHANGED <<all_player_data, available_players>>
       ELSE LET r == load_all_player_data(files)
            IN  /\ all_player_data' = r.all_data
                /\ available_players' = r.available_players
    /\ cached' = TRUE
    /\ pc' = "check"
    /\ UNCHANGED <<pageIdle, widgetVars, runVars>>

\* if not available_players: st.error(...); st.stop()
PageCheckPlayers ==
    /\ pc = "check"
    /\ pc' = IF available_players = <<>> THEN "stopped" ELSE "widgets"
    /\ UNCHANGED <<pageIdle, widgetVars, runVars, cached, all_player_data, available_players>>

\* The sidebar: the selectbox starts at available_players[0], the checkboxes at False;
\* afterwards the widgets give what the user set.
PageWidgets ==
    /\ pc = "widgets"
    /\ player_ign' = IF player_ign = "none" THEN available_players[1] ELSE player_ign
    /\ pc' = "filter"
    /\ UNCHANGED <<pageIdle, only_friend_games, filter_teammates_to_friends, runVars, cached,
                   all_player_data, available_players>>

\* player_matches = all_player_data[selected_player_ign]; filter_matches(...); the
\* warning when no game is left.
PageFilter ==
    /\ pc = "filter"
    /\ steps' = Append(steps, "filter")
    /\ IF HasKey(all_player_data, player_ign)
       THEN LET player_matches == At(all_player_data, player_ign)
                r == filter_matches(player_matches, only_friend_games, player_ign)
            IN  /\ matches' = player_matches
                /\ raised' = r.raised
                /\ filtered_player_matches' = r.value
                /\ all_player_data' =
                       WithPlayerMatches(all_player_data, player_ign,
                                         player_matches_after_run(player_matches, r.value))
                /\ pc' = IF r.raised # "none"
                         THEN "failed"
                         ELSE IF r.value = <<>> THEN "rendered" ELSE "aggregate"
                /\ rendered' = IF r.raised = "none" /\ r.value = <<>>
                               THEN <<Warning("no_games")>>
                               ELSE rendered
       ELSE /\ pc' = "rendered"
            /\ rendered' = <<Warning("select_player")>>
            /\ UNCHANGED <<matches, raised, filtered_player_matches, all_player_data>>
    /\ UNCHANGED <<pageIdle, widgetVars, overall_pm, avg_pm, dayVars, relevant_chars, cached,
                   available_players>>

\* overall_pm, avg_pm, total_perf_by_day, avg_perf_by_day
PageAggregate ==
    /\ pc = "aggregate"
    /\ steps' = Append(steps, "aggregate")
    /\ overall_pm' = get_overall_plus_minus(filtered_player_matches, player_ign)
    /\ avg_pm' = get_average_plus_minus(filtered_player_matches, player_ign)
    /\ LET r == get_performance_by_day_of_week(filtered_player_matches, player_ign)
       IN  /\ total_perf_by_day' = r.total
           /\ avg_perf_by_day' = r.average
    /\ pc' = "avg_tab"
    /\ UNCHANGED <<pageIdle, widgetVars, matches, raised, filtered_player_matches,
                   relevant_chars, rendered, loadVars>>

\* The items of a tab go on the page; an exception ends the run, otherwise the script
\* goes on.
TabStep(tab, next) ==
    /\ rendered' = rendered \o tab.items
    /\ raised' = tab.raised
    /\ pc' = IF tab.raised # "none" THEN "failed" ELSE next

\* with avg_tab: ...
PageAvgTab ==
    /\ pc = "avg_tab"
    /\ steps' = Append(steps, "avg_tab")
    /\ relevant_chars' = relevant_chars_of(player_ign, all_heroes_played(avg_pm))
    /\ TabStep(Tab(filtered_player_matches, player_ign, filter_teammates_to_friends,
                   avg_pm, avg_pm, avg_perf_by_day, TRUE),
               "total_tab")
    /\ UNCHANGED <<pageIdle, widgetVars, matches, filtered_player_matches, overall_pm, avg_pm,
                   dayVars, loadVars>>

\* with total_tab: ...
PageTotalTab ==
    /\ pc = "total_tab"
    /\ steps' = Append(steps, "total_tab")
    /\ relevant_chars' = relevant_chars_of(player_ign, all_heroes_played(avg_pm))
    /\ TabStep(Tab(filtered_player_matches, player_ign, filter_teammates_to_friends,
                   overall_pm, avg_pm, total_perf_by_day, FALSE),
               "rendered")
    /\ UNCHANGED <<pageIdle, widgetVars, matches, filtered_player_matches, overall_pm, avg_pm,
                   dayVars, loadVars>>

\* The script has run to its end or to an exception.
RunOver == pc \in {"rendered", "failed"}

\* A change of a widget runs the script again, from its top, with nothing of the last
\* run but the cache.
Rerun ==
    /\ pc' = "load"
    /\ matches' = <<>>
    /\ raised' = "none"
    /\ filtered_player_matches' = <<>>
    /\ overall_pm' = <<>>
    /\ avg_pm' = <<>>
    /\ total_perf_by_day' = <<>>
    /\ avg_perf_by_day' = <<>>
    /\ relevant_chars' = <<>>
    /\ rendered' = <<>>
    /\ steps' = <<>>
    /\ UNCHANGED <<pageIdle, loadVars>>

\* The user picks another player of the selectbox.
SelectPlayer ==
    /\ RunOver
    /\ \E p \in Range(available_players) \ {player_ign} : player_ign' = p
    /\ UNCHANGED <<only_friend_games, filter_teammates_to_friends>>
    /\ Rerun

\* The user toggles "Filter games to only include games containing friends?".
ToggleOnlyFriendGames ==
    /\ RunOver
    /\ only_friend_games' = ~only_friend_games
    /\ UNCHANGED <<player_ign, filter_teammates_to_friends>>
    /\ Rerun

\* The user toggles "Update same-team matchups charts to only include heroes played by
\* friends?".
ToggleOnlyFriendTeammatesMatchups ==
    /\ RunOver
    /\ filter_teammates_to_friends' = ~filter_teammates_to_friends
    /\ UNCHANGED <<player_ign, only_friend_games>>
    /\ Rerun

\* A step of the script.
RunStep ==
    \/ PageLoad
    \/ PageCheckPlayers
    \/ PageWidgets
    \/ PageFilter
    \/ PageAggregate
    \/ PageAvgTab
    \/ PageTotalTab

NextPage ==
    \/ RunStep
    \/ SelectPlayer
    \/ ToggleOnlyFriendGames
    \/ ToggleOnlyFriendTeammatesMatchups

SpecPage == InitPage /\ [][NextPage]_vars

\* The positions of a script that is running.
Running == {"load", "check", "widgets", "filter", "aggregate", "avg_tab", "total_tab"}

\* The script moves on from its position: the steps of RunStep, and no other step of
\* NextPage, do.
ScriptAdvances ==
    /\ pc \in Running
    /\ pc' \in Running \cup {"stopped", "rendered", "failed"}

\* The script is run statement after statement until st.stop(), its end or an exception;
\* the user may never touch a widget.
SpecPageFair == SpecPage /\ WF_pc(ScriptAdvances)

(***************************************************************************)
(* Claims on the page                                                      *)
(***************************************************************************)
\* The heroes of the data files.
PageHeroes == HeroNames \cup TargetHeroNames

\* The Averages tab of the run has computed relevant_chars.
TabsReached == Len(steps) >= 3

\* C17: for a selected player without entry in RELEVANT_CHARACTERS_MAP, the heroes of
\* the matchup, map and map type sections of both tabs are all the heroes the player has
\* played in the filtered matches: every hero listed at least once in the player's own
\* records.
C17_DefaultsToAllHeroesPlayed ==
    (TabsReached /\ ~HasKey(RELEVANT_CHARACTERS_MAP, player_ign)) =>
        Range(relevant_chars)
            = {h \in PageHeroes : Games(filtered_player_matches, player_ign, h) >= 1}

\* The position of a player in FILE_NAMES.
PlayerIndex(ign) == CHOOSE i \in DOMAIN FILE_NAMES : FILE_NAMES[i] = ign

C19_LoadSkipsFailedFiles ==
    cached =>
        /\ available_players
               = SelectSeq(FILE_NAMES, LAMBDA ign : files[PlayerIndex(ign)].status = "ok")
        /\ [i \in DOMAIN all_player_data |-> all_player_data[i][1]] = available_players
        /\ \A i \in DOMAIN all_player_data :
              all_player_data[i][2] = files[PlayerIndex(all_player_data[i][1])].content
        /\ pc = "stopped" => available_players = <<>>
        /\ available_players = <<>> => (pc \in {"check", "stopped"} /\ steps = <<>>)

\* C19 witness: the first file is missing, the second is not JSON, the third loads: its
\* player is the only one available and a run has filtered its matches.
C19_Witness ==
    /\ files[1].status = "missing"
    /\ files[2].status = "invalid"
    /\ files[3].status = "ok"
    /\ available_players = <<"LiquidusSnake1">>
    /\ player_ign = "LiquidusSnake1"
    /\ steps # <<>>
    /\ steps[1] = "filter"

\* The stages of a run, in the order of the script.
StageOrder == <<"filter", "aggregate", "avg_tab", "total_tab">>

\* The stages done so far are the first ones of the script, in order.
StagesInOrder == Len(steps) <= Len(StageOrder) /\ steps = SubSeq(StageOrder, 1, Len(steps))

FullyRendered ==
    \/ /\ steps = <<"filter">>
       /\ filtered_player_matches = <<>>
       /\ rendered = <<Warning("no_games")>>
    \/ /\ steps = StageOrder
       /\ filtered_player_matches # <<>>
       /\ Len(rendered) = 2 * (2 + IF relevant_chars = <<>> THEN 1 ELSE 4 * Len(relevant_chars))

\* The run was ended by a KeyError: of the filter, on a teammate record without name, or
\* of the map type aggregation of the first relevant character, on a map that is not in
\* MAP_NAME_TO_MAP_TYPE.
EndedByKeyError ==
    /\ raised = "KeyError"
    /\ \/ /\ steps = <<"filter">>
          /\ only_friend_games
          /\ \E i \in DOMAIN matches :
                \E pd \in Range(DetailsOf(matches[i].match_data)) : "name" \notin DOMAIN pd
       \/ /\ steps = <<"filter", "aggregate", "avg_tab">>
          /\ relevant_chars # <<>>
          /\ \E i \in DOMAIN filtered_player_matches :
                ~Mapped(filtered_player_matches[i].match_data)
          /\ Len(rendered) = 4

CallFilterMatchesAgain ==
    /\ pc = "done"
    /\ IF raised # "none"
       THEN UNCHANGED <<matches, raised, filtered_player_matches>>
       ELSE LET r == filter_matches(filtered_player_matches, only_friend_games, player_ign)
            IN  /\ matches' = filtered_player_matches
                /\ raised' = r.raised
                /\ filtered_player_matches' = r.value
    /\ pc' = "twice"
    /\ UNCHANGED extVars
    /\ UNCHANGED <<player_ign, only_friend_games, character, target_teammates,
                   filter_teammates_to_friends, hero_stats, overall_pm, avg_pm,
                   matchups_avg, matchups_total, total_perf_by_day, avg_perf_by_day>>

NextTwice ==
    \/ CallFilterMatches
    \/ CallFilterMatchesAgain

SpecTwice == InitFilter /\ [][NextTwice]_vars

\* C21: filtering is idempotent: for every match mapping, flag and player, filter_matches
\* applied to the result of filter_matches, with the same flag and player, returns a
\* mapping equal to that first result (here matches, the argument of the second call).
C21_FilterIdempotent ==
    pc = "twice" =>
        /\ raised = "none"
        /\ filtered_player_matches = matches

====
